---- MODULE Spec2Model ----
(***************************************************************************)
(* Symbol Typing Trainer: the session state machine of the useTrainer     *)
(* hook (keystroke matching, target drawing, statistics, pool and numeric *)
(* settings), with the domain helpers it calls.                            *)
(*                                                                         *)
(* A JavaScript string is modelled as a sequence of one-character strings, *)
(* so "=>" is <<"=", ">">> and '' is <<>>.  Math.random() is modelled as a *)
(* draw r \in Rand, a fraction <<n, d>> standing for the value n / d.      *)
(***************************************************************************)
EXTENDS Integers, Sequences, FiniteSets, TLC

\* ---------------------------------------------------------------- bounds
\* Counted key presses (an attempt or a Backspace each) explored between two
\* full resets: a key that would raise totalAttempts + totalBackspace above
\* this is not explored.
MaxKeys == 2
\* The wall clock takes the values 0..MaxTime (whole milliseconds).
MaxTime == 1
\* Pool or numeric-settings edits explored in one behaviour.
MaxEdits == 2
\* The same bound where the pool or the settings are edited, and where the
\* key events are on record.
MaxFewKeys == 1

\* The values Math.random() returns, as fractions <<numerator, denominator>>
\* of [0, 1): 0 and 1/2.
Rand == {<<0, 2>>, <<1, 2>>}

\* The values Math.random() returns for the digit positions of a literal.
DigitRand == {<<0, 2>>}

\* ------------------------------------------------------------ JS helpers
Min(a, b) == IF a <= b THEN a ELSE b
Max(a, b) == IF a >= b THEN a ELSE b

\* String.prototype.startsWith
StartsWith(s, p) == Len(p) <= Len(s) /\ SubSeq(s, 1, Len(p)) = p
\* s.slice(0, -1)
DropLast(s) == IF Len(s) = 0 THEN s ELSE SubSeq(s, 1, Len(s) - 1)
\* s[i] ?? '' with a 0-based index i, as a string
CharAt(s, i) == IF i + 1 <= Len(s) THEN <<s[i + 1]>> ELSE <<>>
\* the characters of a string
Chars(s) == {s[i] : i \in 1 .. Len(s)}

\* A JavaScript number: finite (counted in halves, so 2.5 is Half(5)) or not.
Num(i) == [kind |-> "finite", halves |-> 2 * i]
Half(h) == [kind |-> "finite", halves |-> h]
NaN == [kind |-> "NaN", halves |-> 0]
PosInf == [kind |-> "Infinity", halves |-> 0]
NegInf == [kind |-> "-Infinity", halves |-> 0]
\* Math.trunc of a finite number: rounding toward zero
Trunc(n) == IF n.halves >= 0 THEN n.halves \div 2 ELSE -((-n.halves) \div 2)

\* ------------------------------------------------------- domain/random.ts
\* Math.floor(r * n) for a draw r and a natural number n
FloorTimes(r, n) == (r[1] * n) \div r[2]

pickRandom(list, r) == list[FloorTimes(r, Len(list)) + 1]

\* clampInt, had it no upper limit
clampInt_NoUpper(n, min, max) ==
  IF n.kind # "finite" THEN min ELSE Max(min, Trunc(n))

\* clampInt, had it no lower limit
clampInt_NoLower(n, min, max) ==
  IF n.kind # "finite" THEN min ELSE Min(max, Trunc(n))

\* clampInt, had it tested Number.isNaN in place of Number.isFinite
clampInt_OnlyNaN(n, min, max) ==
  IF n.kind = "NaN" THEN min
  ELSE IF n.kind = "Infinity" THEN max
  ELSE IF n.kind = "-Infinity" THEN Min(max, min)
  ELSE Min(max, Max(min, Trunc(n)))

clampInt(n, min, max) ==
  IF n.kind # "finite" THEN min ELSE Min(max, Max(min, Trunc(n)))

randomInt(min, max, r) ==
  LET a == Min(min, max)
      b == Max(min, max)
  IN  a + FloorTimes(r, b - a + 1)

\* ------------------------------------------------------ domain/symbols.ts
\* The last symbol is the grave accent (U+0060), which a TLA+ string cannot
\* hold; the letter g, which no catalog uses, stands for it.
\* SINGLE_SYMBOLS, had the catalog ended before the grave accent
SINGLE_SYMBOLS_NoGrave ==
  << <<"(">>, <<")">>, <<"[">>, <<"]">>, <<"{">>, <<"}">>, <<"<">>, <<">">>,
     <<",">>, <<".">>, <<":">>, <<";">>, <<"!">>, <<"?">>,
     <<"'">>, <<"\"">>,
     <<"+">>, <<"-">>, <<"*">>, <<"/">>, <<"=">>,
     <<"_">>, <<"@">>, <<"#">>, <<"$">>, <<"%">>, <<"^">>, <<"&">>, <<"|">>,
     <<"\\">>, <<"~">> >>

SINGLE_SYMBOLS ==
  << <<"(">>, <<")">>, <<"[">>, <<"]">>, <<"{">>, <<"}">>, <<"<">>, <<">">>,
     <<",">>, <<".">>, <<":">>, <<";">>, <<"!">>, <<"?">>,
     <<"'">>, <<"\"">>,
     <<"+">>, <<"-">>, <<"*">>, <<"/">>, <<"=">>,
     <<"_">>, <<"@">>, <<"#">>, <<"$">>, <<"%">>, <<"^">>, <<"&">>, <<"|">>,
     <<"\\">>, <<"~">>, <<"g">> >>

COMBOS ==
  << <<"=", ">">>, <<"-", ">">>, <<"<", "-">>, <<"!", "=">>, <<"=", "=">>,
     <<"=", "=", "=">>, <<"<", "=">>, <<">", "=">>,
     <<"&", "&">>, <<"|", "|">>, <<"?", "?">>, <<"?", ":">>,
     <<":", ":">>, <<"-", ">", ">">>, <<"?", ".">>, <<"?", "?", "=">>,
     <<".", ".">>, <<".", ".", ".">>,
     <<"/", "/">>, <<"/", "*">>, <<"*", "/">>,
     <<"<", "/">>, <<"/", ">">> >>

Items(list) == {list[i] : i \in 1 .. Len(list)}

\* where an item stands in a list
IndexIn(list, item) == CHOOSE k \in 1 .. Len(list) : list[k] = item

initEnabledMap(list) == [item \in Items(list) |-> TRUE]

\* ------------------------------------------------------- domain/digits.ts
DigitChar(d) == <<"0", "1", "2", "3", "4", "5", "6", "7", "8", "9">>[d + 1]

\* buildDigitsString, had it drawn the first digit like the others
buildDigitsString_AnyFirst(len, firstNonZero, draws) ==
  LET n == Max(1, len)
  IN  [i \in 1 .. n |-> DigitChar(randomInt(0, 9, draws[i]))]

\* buildDigitsString with the draws its loop makes, one per position
buildDigitsString(len, firstNonZero, draws) ==
  LET n == Max(1, len)
  IN  [i \in 1 .. n |->
         DigitChar(IF i = 1 /\ firstNonZero
                   THEN randomInt(1, 9, draws[i])
                   ELSE randomInt(0, 9, draws[i]))]

\* every string buildDigitsString can return
DigitStrings(len, firstNonZero) ==
  {buildDigitsString(len, firstNonZero, draws) :
     draws \in [1 .. Max(1, len) -> DigitRand]}

\* DigitsTargetsFor, had it drawn the sign whatever enableSign says
DigitsTargetsFor_AlwaysSign(settings, rLen, rDec, rSign, rPm, rFrac) ==
  LET minIntDigits == clampInt(Num(settings.minIntDigits), 1, 50)
      maxIntDigits == clampInt(Num(settings.maxIntDigits), 1, 50)
      minFracDigits == clampInt(Num(settings.minFracDigits), 1, 50)
      maxFracDigits == clampInt(Num(settings.maxFracDigits), 1, 50)
      intLen == randomInt(minIntDigits, maxIntDigits, rLen)
      \* Math.random() < 0.3, and 0 when the option is off
      withDecimal == settings.enableDecimal /\ 10 * rDec[1] < 3 * rDec[2]
      withSign == 10 * rSign[1] < 3 * rSign[2]
      \* Math.random() < 0.5 gives plus, else minus
      sign == IF withSign
              THEN (IF 2 * rPm[1] < rPm[2] THEN <<"+">> ELSE <<"-">>)
              ELSE <<>>
      fracLen == randomInt(minFracDigits, maxFracDigits, rFrac)
  IN  IF ~withDecimal
      THEN {sign \o body : body \in DigitStrings(intLen, TRUE)}
      ELSE {sign \o intPart \o <<".">> \o fracPart :
              intPart \in DigitStrings(intLen, FALSE),
              fracPart \in DigitStrings(fracLen, FALSE)}

\* DigitsTargetsFor, had it drawn the decimal point whatever enableDecimal says
DigitsTargetsFor_AlwaysDecimal(settings, rLen, rDec, rSign, rPm, rFrac) ==
  LET minIntDigits == clampInt(Num(settings.minIntDigits), 1, 50)
      maxIntDigits == clampInt(Num(settings.maxIntDigits), 1, 50)
      minFracDigits == clampInt(Num(settings.minFracDigits), 1, 50)
      maxFracDigits == clampInt(Num(settings.maxFracDigits), 1, 50)
      intLen == randomInt(minIntDigits, maxIntDigits, rLen)
      \* Math.random() < 0.3, and 0 when the option is off
      withDecimal == 10 * rDec[1] < 3 * rDec[2]
      withSign == settings.enableSign /\ 10 * rSign[1] < 3 * rSign[2]
      \* Math.random() < 0.5 gives plus, else minus
      sign == IF withSign
              THEN (IF 2 * rPm[1] < rPm[2] THEN <<"+">> ELSE <<"-">>)
              ELSE <<>>
      fracLen == randomInt(minFracDigits, maxFracDigits, rFrac)
  IN  IF ~withDecimal
      THEN {sign \o body : body \in DigitStrings(intLen, TRUE)}
      ELSE {sign \o intPart \o <<".">> \o fracPart :
              intPart \in DigitStrings(intLen, FALSE),
              fracPart \in DigitStrings(fracLen, FALSE)}

\* DigitsTargetsFor, had it let a pure integer start with any digit
DigitsTargetsFor_ZeroLedInteger(settings, rLen, rDec, rSign, rPm, rFrac) ==
  LET minIntDigits == clampInt(Num(settings.minIntDigits), 1, 50)
      maxIntDigits == clampInt(Num(settings.maxIntDigits), 1, 50)
      minFracDigits == clampInt(Num(settings.minFracDigits), 1, 50)
      maxFracDigits == clampInt(Num(settings.maxFracDigits), 1, 50)
      intLen == randomInt(minIntDigits, maxIntDigits, rLen)
      \* Math.random() < 0.3, and 0 when the option is off
      withDecimal == settings.enableDecimal /\ 10 * rDec[1] < 3 * rDec[2]
      withSign == settings.enableSign /\ 10 * rSign[1] < 3 * rSign[2]
      \* Math.random() < 0.5 gives plus, else minus
      sign == IF withSign
              THEN (IF 2 * rPm[1] < rPm[2] THEN <<"+">> ELSE <<"-">>)
              ELSE <<>>
      fracLen == randomInt(minFracDigits, maxFracDigits, rFrac)
  IN  IF ~withDecimal
      THEN {sign \o body : body \in DigitStrings(intLen, FALSE)}
      ELSE {sign \o intPart \o <<".">> \o fracPart :
              intPart \in DigitStrings(intLen, FALSE),
              fracPart \in DigitStrings(fracLen, FALSE)}

\* the literals generateDigitsTarget returns for the draws
\* rLen (integer length), rDec (decimal?), rSign (sign?), rPm (which sign),
\* rFrac (fraction length)
DigitsTargetsFor(settings, rLen, rDec, rSign, rPm, rFrac) ==
  LET minIntDigits == clampInt(Num(settings.minIntDigits), 1, 50)
      maxIntDigits == clampInt(Num(settings.maxIntDigits), 1, 50)
      minFracDigits == clampInt(Num(settings.minFracDigits), 1, 50)
      maxFracDigits == clampInt(Num(settings.maxFracDigits), 1, 50)
      intLen == randomInt(minIntDigits, maxIntDigits, rLen)
      \* Math.random() < 0.3, and 0 when the option is off
      withDecimal == settings.enableDecimal /\ 10 * rDec[1] < 3 * rDec[2]
      withSign == settings.enableSign /\ 10 * rSign[1] < 3 * rSign[2]
      \* Math.random() < 0.5 gives plus, else minus
      sign == IF withSign
              THEN (IF 2 * rPm[1] < rPm[2] THEN <<"+">> ELSE <<"-">>)
              ELSE <<>>
      fracLen == randomInt(minFracDigits, maxFracDigits, rFrac)
  IN  IF ~withDecimal
      THEN {sign \o body : body \in DigitStrings(intLen, TRUE)}
      ELSE {sign \o intPart \o <<".">> \o fracPart :
              intPart \in DigitStrings(intLen, FALSE),
              fracPart \in DigitStrings(fracLen, FALSE)}

\* every literal generateDigitsTarget(settings) can return
generateDigitsTarget(settings) ==
  UNION {DigitsTargetsFor(settings, d[1], d[2], d[3], d[4], d[5]) :
           d \in Rand \X Rand \X Rand \X Rand \X Rand}

\* ----------------------------------------------------- domain/keyboard.ts
normalizeKey(k) ==
  IF k \in {"Enter", "Tab", "Escape"} THEN k
  ELSE IF k = "Dead" THEN ""
  ELSE k


\* ------------------------------------------------------------ the session
VARIABLES
  mode,            \* 'single' | 'combo' | 'digits'
  isRunning,
  enabledSingle,   \* Record<string, boolean> over SINGLE_SYMBOLS
  enabledCombo,    \* Record<string, boolean> over COMBOS
  digitsSettings,
  target,
  typed,
  progress,
  totalAttempts,
  totalCorrect,
  totalMiss,
  totalBackspace,
  lastTimeMs,      \* NoTime for null
  statsByItem,     \* Record<string, Stat>
  shownAt,         \* shownAtRef.current
  now,             \* the wall clock nowMs() reads
  edits,           \* pool and settings edits made so far (bounds the search)
  lastEvent,       \* the event on record, if the last step logged one (history)
  subscribed,      \* what the keydown listener now registered closed over
  call             \* the function call under examination, if any (pure functions)

\* what the hook owns
session ==
  <<mode, isRunning, enabledSingle, enabledCombo, digitsSettings, target,
    typed, progress, totalAttempts, totalCorrect, totalMiss, totalBackspace,
    lastTimeMs, statsByItem, shownAt>>

vars == <<session, now, edits, lastEvent, subscribed, call>>

\* the values an onKeyDown created by the current render closes over
Closure ==
  [isRunning |-> isRunning, mode |-> mode, target |-> target,
   progress |-> progress]

\* the keydown effect after the render that follows an event: the listener is
\* removed and a new one, closed over the values just rendered, is added
\* (when no dependency changed the listener stays, closed over the same values)
Subscribe == subscribed' = Closure'

\* lastTimeMs === null
NoTime == -1

\* no function call is under examination
NoCall == [fn |-> "", args |-> <<>>, result |-> <<>>]

\* no keydown event on record
NoEvent == [key |-> "", metaKey |-> FALSE, ctrlKey |-> FALSE, altKey |-> FALSE]

NoStats == [item \in {} |-> [attempts |-> 0, correct |-> 0, totalMs |-> 0]]

\* basePool of a mode
BasePool(m) ==
  IF m = "digits" THEN <<>>
  ELSE IF m = "single" THEN SINGLE_SYMBOLS ELSE COMBOS

\* list.filter(item => enabled[item] !== false)
FilterEnabled(list, enabled) ==
  LET keep(item) == enabled[item] # FALSE
  IN  SelectSeq(list, keep)

\* enabledMap of a mode
EnabledMap(m) == IF m = "single" THEN enabledSingle ELSE enabledCombo

\* pool: the effective pool of the current mode
pool == FilterEnabled(BasePool(mode), EnabledMap(mode))

\* the page after its first render
InitSession ==
  /\ mode = "single"
  /\ isRunning = TRUE
  /\ enabledSingle = initEnabledMap(SINGLE_SYMBOLS)
  /\ enabledCombo = initEnabledMap(COMBOS)
  /\ digitsSettings = [minIntDigits |-> 3, maxIntDigits |-> 7,
                       enableSign |-> FALSE, enableDecimal |-> FALSE,
                       minFracDigits |-> 1, maxFracDigits |-> 4]
  /\ \E r \in Rand : target = pickRandom(SINGLE_SYMBOLS, r)
  /\ typed = <<>>
  /\ progress = <<>>
  /\ totalAttempts = 0
  /\ totalCorrect = 0
  /\ totalMiss = 0
  /\ totalBackspace = 0
  /\ lastTimeMs = NoTime
  /\ statsByItem = NoStats
  /\ now = 0
  /\ shownAt = now
  /\ edits = 0
  /\ lastEvent = NoEvent
  /\ subscribed = Closure

Init == InitSession /\ call = NoCall

\* resetQuestion, had it left the shown-at timestamp alone
resetQuestion_KeepsShownAt(nextMode, es, ec, ds) ==
  /\ IF nextMode = "digits"
     THEN target' \in generateDigitsTarget(ds)
     ELSE LET list == IF nextMode = "single" THEN SINGLE_SYMBOLS ELSE COMBOS
              enabled == IF nextMode = "single" THEN es ELSE ec
              nextPool == FilterEnabled(list, enabled)
          IN  IF Len(nextPool) = 0
              THEN target' = <<>>
              ELSE \E r \in Rand : target' = pickRandom(nextPool, r)
  /\ typed' = <<>>
  /\ progress' = <<>>
  /\ shownAt' = shownAt

\* resetQuestion(nextMode, overrides): es, ec, ds are the effective maps and
\* settings (the override when given, the state otherwise)
resetQuestion(nextMode, es, ec, ds) ==
  /\ IF nextMode = "digits"
     THEN target' \in generateDigitsTarget(ds)
     ELSE LET list == IF nextMode = "single" THEN SINGLE_SYMBOLS ELSE COMBOS
              enabled == IF nextMode = "single" THEN es ELSE ec
              nextPool == FilterEnabled(list, enabled)
          IN  IF Len(nextPool) = 0
              THEN target' = <<>>
              ELSE \E r \in Rand : target' = pickRandom(nextPool, r)
  /\ typed' = <<>>
  /\ progress' = <<>>
  /\ shownAt' = now

\* nextQuestion, had it drawn among the other items of the pool when there
\* are any
nextQuestion_NoRepeat(typedQ, progressQ) ==
  IF mode = "digits"
  THEN resetQuestion("digits", enabledSingle, enabledCombo, digitsSettings)
  ELSE IF Len(pool) = 0
  THEN /\ typed' = typedQ
       /\ progress' = progressQ
       /\ UNCHANGED <<target, shownAt>>
  ELSE LET isOther(item) == item # target
           others == IF Len(pool) = 1 THEN pool ELSE SelectSeq(pool, isOther)
       IN  /\ \E r \in Rand : target' = pickRandom(others, r)
           /\ typed' = <<>>
           /\ progress' = <<>>
           /\ shownAt' = now

\* nextQuestion(), called after the handler queued typedQ and progressQ
nextQuestion(typedQ, progressQ) ==
  IF mode = "digits"
  THEN resetQuestion("digits", enabledSingle, enabledCombo, digitsSettings)
  ELSE IF Len(pool) = 0
  THEN /\ typed' = typedQ
       /\ progress' = progressQ
       /\ UNCHANGED <<target, shownAt>>
  ELSE /\ \E r \in Rand : target' = pickRandom(pool, r)
       /\ typed' = <<>>
       /\ progress' = <<>>
       /\ shownAt' = now

\* bumpStat, had it returned the entry of the item alone
bumpStat_ForgetsOthers(item, isCorrect, elapsedMs) ==
  LET current == IF item \in DOMAIN statsByItem
                 THEN statsByItem[item]
                 ELSE [attempts |-> 0, correct |-> 0, totalMs |-> 0]
      next == [attempts |-> current.attempts + 1,
               correct |-> current.correct + (IF isCorrect THEN 1 ELSE 0),
               totalMs |-> current.totalMs +
                  (IF isCorrect /\ elapsedMs # NoTime THEN elapsedMs ELSE 0)]
  IN  [i \in {item} |-> next]

\* bumpStat(item, isCorrect, elapsedMs): the next statsByItem; elapsedMs is
\* NoTime when the argument is omitted
bumpStat(item, isCorrect, elapsedMs) ==
  LET current == IF item \in DOMAIN statsByItem
                 THEN statsByItem[item]
                 ELSE [attempts |-> 0, correct |-> 0, totalMs |-> 0]
      next == [attempts |-> current.attempts + 1,
               correct |-> current.correct + (IF isCorrect THEN 1 ELSE 0),
               totalMs |-> current.totalMs +
                  (IF isCorrect /\ elapsedMs # NoTime THEN elapsedMs ELSE 0)]
  IN  [i \in DOMAIN statsByItem \cup {item} |->
         IF i = item THEN next ELSE statsByItem[i]]

\* ----------------------------------------------------------------- ranked
\* a / b as the exact quotient; den = 0 is the NaN or Infinity a division by
\* zero gives. The counts and sums of a session are small integers, for which
\* equal quotients are equal doubles and unequal ones compare as the exact
\* values do.
Over(a, b) == [num |-> a, den |-> b]

Same(p, q) == p.num * q.den = q.num * p.den

Less(p, q) == p.num * q.den < q.num * p.den

\* avg: null
NoAvg == <<>>

\* .slice(0, 10)
RankedLimit == 10

\* the row the map callback builds, had it divided whatever correct is
RankedRow_AlwaysDivides(item, s) ==
  [item |-> item, attempts |-> s.attempts, correct |-> s.correct,
   totalMs |-> s.totalMs,
   acc |-> IF s.attempts = 0 THEN Over(0, 1)
           ELSE LET q == Over(s.correct, s.attempts)
                IN  Over(q.num * 100, q.den),
   avg |-> <<Over(s.totalMs, s.correct)>>]

\* ([item, s]) => ({ item, ...s, acc, avg }); a number avg is <<number>>
RankedRow(item, s) ==
  [item |-> item, attempts |-> s.attempts, correct |-> s.correct,
   totalMs |-> s.totalMs,
   acc |-> IF s.attempts = 0 THEN Over(0, 1)
           ELSE LET q == Over(s.correct, s.attempts)
                IN  Over(q.num * 100, q.den),
   avg |-> IF s.correct = 0 THEN NoAvg
           ELSE <<Over(s.totalMs, s.correct)>>]

\* the comparator, had it put the fewer attempts first among equal accuracies
RankedBefore_FewerAttemptsFirst(a, b) ==
  IF ~Same(a.acc, b.acc) THEN Less(a.acc, b.acc)
  ELSE a.attempts - b.attempts < 0

\* the sort comparator returns a negative number: a goes before b
RankedBefore(a, b) ==
  IF ~Same(a.acc, b.acc) THEN Less(a.acc, b.acc)
  ELSE b.attempts - a.attempts < 0

\* Array.prototype.sort is stable: a row goes in front of the first row it
\* goes before, behind every row it ties with
RECURSIVE InsertRanked(_, _)
InsertRanked(sorted, r) ==
  IF sorted = <<>> THEN <<r>>
  ELSE IF RankedBefore(r, Head(sorted)) THEN <<r>> \o sorted
  ELSE <<Head(sorted)>> \o InsertRanked(Tail(sorted), r)

RECURSIVE SortRanked(_)
SortRanked(rows) ==
  IF rows = <<>> THEN <<>>
  ELSE InsertRanked(SortRanked(DropLast(rows)), rows[Len(rows)])

\* the keys of a record in some order
RECURSIVE KeysOf(_)
KeysOf(S) ==
  IF S = {} THEN <<>>
  ELSE LET k == CHOOSE k \in S : TRUE
       IN  <<k>> \o KeysOf(S \ {k})

\* Object.entries lists the keys in the order they were inserted, which the
\* state does not keep: the orders considered are one order of the keys and
\* its reverse
KeyOrders ==
  LET keys == KeysOf(DOMAIN statsByItem)
  IN  {keys, [i \in 1 .. Len(keys) |-> keys[Len(keys) + 1 - i]]}

\* ranked, for Object.entries(statsByItem) in the order `keys`
ranked(keys) ==
  LET rows == [i \in 1 .. Len(keys) |->
                 RankedRow(keys[i], statsByItem[keys[i]])]
      sorted == SortRanked(rows)
  IN  SubSeq(sorted, 1, Min(Len(sorted), RankedLimit))

\* -------------------------------------------------------------- onKeyDown
\* The handler reads isRunning, mode, target and progress from the closure it
\* was created in (subscribed); typed, the counters and the statistics are
\* updated from their current values (functional updates) and shownAtRef is
\* a ref, read as it is. nextQuestion, a dependency of the effect itself, is
\* re-created only when the mode, the pool or the settings change.
\* Completed, had it taken the clock for the elapsed time
Completed_ElapsedIsNow(typedQ, progressQ) ==
  LET elapsed == now
  IN  /\ lastTimeMs' = elapsed
      /\ totalAttempts' = totalAttempts + 1
      /\ totalCorrect' = totalCorrect + 1
      /\ statsByItem' = bumpStat(subscribed.target, TRUE, elapsed)
      /\ nextQuestion(typedQ, progressQ)
      /\ UNCHANGED <<totalMiss, totalBackspace>>

\* Completed, had it recorded the target's statistic as a failure
Completed_StatAsMiss(typedQ, progressQ) ==
  LET elapsed == now - shownAt
  IN  /\ lastTimeMs' = elapsed
      /\ totalAttempts' = totalAttempts + 1
      /\ totalCorrect' = totalCorrect + 1
      /\ statsByItem' = bumpStat(subscribed.target, FALSE, NoTime)
      /\ nextQuestion(typedQ, progressQ)
      /\ UNCHANGED <<totalMiss, totalBackspace>>

\* the completion branch, the same in both modes once typed/progress are queued
Completed(typedQ, progressQ) ==
  LET elapsed == now - shownAt
  IN  /\ lastTimeMs' = elapsed
      /\ totalAttempts' = totalAttempts + 1
      /\ totalCorrect' = totalCorrect + 1
      /\ statsByItem' = bumpStat(subscribed.target, TRUE, elapsed)
      /\ nextQuestion(typedQ, progressQ)
      /\ UNCHANGED <<totalMiss, totalBackspace>>

\* DigitsBackspace, had it left progress alone
DigitsBackspace_KeepsProgress ==
  /\ totalBackspace' = totalBackspace + 1
  /\ typed' = DropLast(typed)
  /\ UNCHANGED <<progress, target, shownAt, totalAttempts, totalCorrect,
                 totalMiss, lastTimeMs, statsByItem>>

\* digits mode, Backspace
DigitsBackspace ==
  /\ totalBackspace' = totalBackspace + 1
  /\ typed' = DropLast(typed)
  /\ progress' = DropLast(progress)
  /\ UNCHANGED <<target, shownAt, totalAttempts, totalCorrect, totalMiss,
                 lastTimeMs, statsByItem>>

\* DigitsMismatch, had it reset the buffers as the symbol modes do
DigitsMismatch_ResetsProgress ==
  /\ totalAttempts' = totalAttempts + 1
  /\ totalMiss' = totalMiss + 1
  /\ statsByItem' = bumpStat(subscribed.target, FALSE, NoTime)
  /\ typed' = <<>>
  /\ progress' = <<>>
  /\ UNCHANGED <<target, shownAt, totalCorrect, totalBackspace, lastTimeMs>>

\* DigitsMismatch, had it counted the attempt without the miss
DigitsMismatch_AttemptOnly ==
  /\ totalAttempts' = totalAttempts + 1
  /\ statsByItem' = bumpStat(subscribed.target, FALSE, NoTime)
  /\ UNCHANGED <<target, typed, progress, shownAt, totalCorrect, totalMiss,
                 totalBackspace, lastTimeMs>>

\* digits mode, a key of length 1 that is not the expected character
DigitsMismatch ==
  /\ totalAttempts' = totalAttempts + 1
  /\ totalMiss' = totalMiss + 1
  /\ statsByItem' = bumpStat(subscribed.target, FALSE, NoTime)
  /\ UNCHANGED <<target, typed, progress, shownAt, totalCorrect,
                 totalBackspace, lastTimeMs>>

\* DigitsKey, had it counted a matching key that does not complete the target
\* as an attempt
DigitsKey_CountsMatch(key) ==
  LET expected == CharAt(subscribed.target, Len(subscribed.progress))
      nextProgress == Append(subscribed.progress, key)
  IN  IF <<key>> = expected
      THEN IF nextProgress = subscribed.target
           THEN Completed(nextProgress, nextProgress)
           ELSE /\ typed' = nextProgress
                /\ progress' = nextProgress
                /\ totalAttempts' = totalAttempts + 1
                /\ UNCHANGED <<target, shownAt, totalCorrect, totalMiss,
                               totalBackspace, lastTimeMs, statsByItem>>
      ELSE DigitsMismatch

\* DigitsKey, had it shown a mistyped key in typed as the symbol modes do
DigitsKey_ShowsKey(key) ==
  LET expected == CharAt(subscribed.target, Len(subscribed.progress))
      nextProgress == Append(subscribed.progress, key)
  IN  IF <<key>> = expected
      THEN IF nextProgress = subscribed.target
           THEN Completed(nextProgress, nextProgress)
           ELSE /\ typed' = nextProgress
                /\ progress' = nextProgress
                /\ UNCHANGED <<target, shownAt, totalAttempts, totalCorrect,
                               totalMiss, totalBackspace, lastTimeMs,
                               statsByItem>>
      ELSE /\ totalAttempts' = totalAttempts + 1
           /\ totalMiss' = totalMiss + 1
           /\ statsByItem' = bumpStat(subscribed.target, FALSE, NoTime)
           /\ typed' = Append(typed, key)
           /\ UNCHANGED <<target, progress, shownAt, totalCorrect,
                          totalBackspace, lastTimeMs>>

\* DigitsKey, had it kept a mistyped key in the buffers until Backspace
DigitsKey_KeepsMistyped(key) ==
  LET expected == CharAt(subscribed.target, Len(subscribed.progress))
      nextProgress == Append(subscribed.progress, key)
  IN  IF <<key>> = expected
      THEN IF nextProgress = subscribed.target
           THEN Completed(nextProgress, nextProgress)
           ELSE /\ typed' = nextProgress
                /\ progress' = nextProgress
                /\ UNCHANGED <<target, shownAt, totalAttempts, totalCorrect,
                               totalMiss, totalBackspace, lastTimeMs,
                               statsByItem>>
      ELSE /\ totalAttempts' = totalAttempts + 1
           /\ totalMiss' = totalMiss + 1
           /\ statsByItem' = bumpStat(subscribed.target, FALSE, NoTime)
           /\ typed' = nextProgress
           /\ progress' = nextProgress
           /\ UNCHANGED <<target, shownAt, totalCorrect, totalBackspace,
                          lastTimeMs>>

\* digits mode, a key of length 1
DigitsKey(key) ==
  LET expected == CharAt(subscribed.target, Len(subscribed.progress))
      nextProgress == Append(subscribed.progress, key)
  IN  IF <<key>> = expected
      THEN IF nextProgress = subscribed.target
           THEN Completed(nextProgress, nextProgress)
           ELSE /\ typed' = nextProgress
                /\ progress' = nextProgress
                /\ UNCHANGED <<target, shownAt, totalAttempts, totalCorrect,
                               totalMiss, totalBackspace, lastTimeMs,
                               statsByItem>>
      ELSE DigitsMismatch

\* SymbolMismatch, had it kept the mistyped key in progress
SymbolMismatch_KeepsKey(key) ==
  /\ typed' = Append(typed, key)
  /\ totalAttempts' = totalAttempts + 1
  /\ totalMiss' = totalMiss + 1
  /\ statsByItem' = bumpStat(subscribed.target, FALSE, NoTime)
  /\ progress' = Append(subscribed.progress, key)
  /\ UNCHANGED <<target, shownAt, totalCorrect, totalBackspace, lastTimeMs>>

\* SymbolMismatch, had it reset typed together with progress
SymbolMismatch_ResetsTyped(key) ==
  /\ typed' = <<>>
  /\ totalAttempts' = totalAttempts + 1
  /\ totalMiss' = totalMiss + 1
  /\ statsByItem' = bumpStat(subscribed.target, FALSE, NoTime)
  /\ progress' = <<>>
  /\ UNCHANGED <<target, shownAt, totalCorrect, totalBackspace, lastTimeMs>>

\* SymbolMismatch, had it left progress as it was
SymbolMismatch_KeepsProgress(key) ==
  /\ typed' = Append(typed, key)
  /\ totalAttempts' = totalAttempts + 1
  /\ totalMiss' = totalMiss + 1
  /\ statsByItem' = bumpStat(subscribed.target, FALSE, NoTime)
  /\ UNCHANGED <<progress, target, shownAt, totalCorrect, totalBackspace,
                 lastTimeMs>>

\* SymbolMismatch, had it restarted the match at the mistyped key when that
\* key is the first character of the target
SymbolMismatch_RestartsAtKey(key) ==
  /\ typed' = Append(typed, key)
  /\ totalAttempts' = totalAttempts + 1
  /\ totalMiss' = totalMiss + 1
  /\ statsByItem' = bumpStat(subscribed.target, FALSE, NoTime)
  /\ progress' = IF StartsWith(subscribed.target, <<key>>) THEN <<key>> ELSE <<>>
  /\ UNCHANGED <<target, shownAt, totalCorrect, totalBackspace, lastTimeMs>>

\* single/combo mode, a key of length 1 that breaks the prefix
SymbolMismatch(key) ==
  /\ typed' = Append(typed, key)
  /\ totalAttempts' = totalAttempts + 1
  /\ totalMiss' = totalMiss + 1
  /\ statsByItem' = bumpStat(subscribed.target, FALSE, NoTime)
  /\ progress' = <<>>
  /\ UNCHANGED <<target, shownAt, totalCorrect, totalBackspace, lastTimeMs>>

\* single/combo mode, a key of length 1
SymbolKey(key) ==
  LET nextProgress == Append(subscribed.progress, key)
  IN  IF StartsWith(subscribed.target, nextProgress)
      THEN IF nextProgress = subscribed.target
           THEN Completed(Append(typed, key), nextProgress)
           ELSE /\ typed' = Append(typed, key)
                /\ progress' = nextProgress
                /\ UNCHANGED <<target, shownAt, totalAttempts, totalCorrect,
                               totalMiss, totalBackspace, lastTimeMs,
                               statsByItem>>
      ELSE SymbolMismatch(key)

\* the handler returns without touching the state
Ignored ==
  UNCHANGED <<target, typed, progress, shownAt, totalAttempts, totalCorrect,
              totalMiss, totalBackspace, lastTimeMs, statsByItem>>

\* Gated, had it let keys through while paused
Gated_IgnoresPause(e) ==
  subscribed.target = <<>> \/ e.metaKey \/ e.ctrlKey \/ e.altKey

\* Gated, had it let keys through while there is no target
Gated_IgnoresNoTarget(e) ==
  ~subscribed.isRunning \/ e.metaKey \/ e.ctrlKey \/ e.altKey

\* the guards in front of both branches: not running, no target, a modifier
Gated(e) ==
  \/ ~subscribed.isRunning
  \/ subscribed.target = <<>>
  \/ e.metaKey \/ e.ctrlKey \/ e.altKey

\* NotOneChar, had it only dropped the empty key
NotOneChar_EmptyOnly(key) == key = ""

\* normalizeKey gave '' or something that is not one character
NotOneChar(key) == key = "" \/ Len(key) # 1

\* onKeyDown, had it handled Backspace in every mode
onKeyDown_BackspaceAnyMode(e) ==
  /\ IF Gated(e) THEN Ignored
     ELSE IF e.key = "Backspace" THEN DigitsBackspace
     ELSE LET key == normalizeKey(e.key)
          IN  IF NotOneChar(key) THEN Ignored
              ELSE IF subscribed.mode = "digits" THEN DigitsKey(key)
              ELSE SymbolKey(key)
  /\ UNCHANGED <<mode, isRunning, enabledSingle, enabledCombo, digitsSettings>>

onKeyDown(e) ==
  /\ IF Gated(e) THEN Ignored
     ELSE IF subscribed.mode = "digits" /\ e.key = "Backspace"
     THEN DigitsBackspace
     ELSE LET key == normalizeKey(e.key)
          IN  IF NotOneChar(key) THEN Ignored
              ELSE IF subscribed.mode = "digits" THEN DigitsKey(key)
              ELSE SymbolKey(key)
  /\ UNCHANGED <<mode, isRunning, enabledSingle, enabledCombo, digitsSettings>>

\* ------------------------------------------------------ the hook's actions
\* setModeAndReset, had it zeroed the counters and statistics as resetAll does
setModeAndReset_ZeroesCounters(nextMode) ==
  /\ mode' = nextMode
  /\ resetQuestion(nextMode, enabledSingle, enabledCombo, digitsSettings)
  /\ totalAttempts' = 0
  /\ totalCorrect' = 0
  /\ totalMiss' = 0
  /\ totalBackspace' = 0
  /\ statsByItem' = NoStats
  /\ UNCHANGED <<isRunning, enabledSingle, enabledCombo, digitsSettings,
                 lastTimeMs>>

\* setModeAndReset, had it redrawn the question for the mode being left
setModeAndReset_OldModeQuestion(nextMode) ==
  /\ mode' = nextMode
  /\ resetQuestion(mode, enabledSingle, enabledCombo, digitsSettings)
  /\ UNCHANGED <<isRunning, enabledSingle, enabledCombo, digitsSettings,
                 totalAttempts, totalCorrect, totalMiss, totalBackspace,
                 lastTimeMs, statsByItem>>

setModeAndReset(nextMode) ==
  /\ mode' = nextMode
  /\ resetQuestion(nextMode, enabledSingle, enabledCombo, digitsSettings)
  /\ UNCHANGED <<isRunning, enabledSingle, enabledCombo, digitsSettings,
                 totalAttempts, totalCorrect, totalMiss, totalBackspace,
                 lastTimeMs, statsByItem>>

\* toggleRunning, had it restarted the question's clock
toggleRunning_RestartsClock ==
  /\ isRunning' = ~isRunning
  /\ shownAt' = now
  /\ UNCHANGED <<mode, enabledSingle, enabledCombo, digitsSettings, target,
                 typed, progress, totalAttempts, totalCorrect, totalMiss,
                 totalBackspace, lastTimeMs, statsByItem>>

toggleRunning ==
  /\ isRunning' = ~isRunning
  /\ UNCHANGED <<mode, enabledSingle, enabledCombo, digitsSettings, target,
                 typed, progress, totalAttempts, totalCorrect, totalMiss,
                 totalBackspace, lastTimeMs, statsByItem, shownAt>>

\* resetAll, had it kept the per-item statistics
resetAll_KeepsStats ==
  /\ totalAttempts' = 0
  /\ totalCorrect' = 0
  /\ totalMiss' = 0
  /\ totalBackspace' = 0
  /\ lastTimeMs' = NoTime
  /\ resetQuestion(mode, enabledSingle, enabledCombo, digitsSettings)
  /\ UNCHANGED <<mode, isRunning, enabledSingle, enabledCombo, digitsSettings,
                 statsByItem>>

\* resetAll, had it enabled every item again
resetAll_EnablesAll ==
  /\ totalAttempts' = 0
  /\ totalCorrect' = 0
  /\ totalMiss' = 0
  /\ totalBackspace' = 0
  /\ lastTimeMs' = NoTime
  /\ statsByItem' = NoStats
  /\ enabledSingle' = initEnabledMap(SINGLE_SYMBOLS)
  /\ enabledCombo' = initEnabledMap(COMBOS)
  /\ resetQuestion(mode, initEnabledMap(SINGLE_SYMBOLS), initEnabledMap(COMBOS),
                   digitsSettings)
  /\ UNCHANGED <<mode, isRunning, digitsSettings>>

resetAll ==
  /\ totalAttempts' = 0
  /\ totalCorrect' = 0
  /\ totalMiss' = 0
  /\ totalBackspace' = 0
  /\ lastTimeMs' = NoTime
  /\ statsByItem' = NoStats
  /\ resetQuestion(mode, enabledSingle, enabledCombo, digitsSettings)
  /\ UNCHANGED <<mode, isRunning, enabledSingle, enabledCombo, digitsSettings>>

\* the settings setDigitsSettingsAndReset stores for the settings it is given
NormalizeSettings(next) ==
  LET c == [next EXCEPT
              !.minIntDigits = clampInt(Num(next.minIntDigits), 1, 50),
              !.maxIntDigits = clampInt(Num(next.maxIntDigits), 1, 50),
              !.minFracDigits = clampInt(Num(next.minFracDigits), 1, 50),
              !.maxFracDigits = clampInt(Num(next.maxFracDigits), 1, 50)]
      n1 == [c EXCEPT !.minIntDigits = Min(c.minIntDigits, c.maxIntDigits)]
      n2 == [n1 EXCEPT !.maxIntDigits = Max(n1.maxIntDigits, n1.minIntDigits)]
      n3 == [n2 EXCEPT !.minFracDigits = Min(n2.minFracDigits, n2.maxFracDigits)]
  IN  [n3 EXCEPT !.maxFracDigits = Max(n3.maxFracDigits, n3.minFracDigits)]

\* setDigitsSettingsAndReset, had it redrawn the question from the settings
\* of the closure
setDigitsSettingsAndReset_OldSettings(next) ==
  LET normalized == NormalizeSettings(next)
  IN  /\ digitsSettings' = normalized
      /\ resetQuestion("digits", enabledSingle, enabledCombo, digitsSettings)
      /\ UNCHANGED <<mode, isRunning, enabledSingle, enabledCombo,
                     totalAttempts, totalCorrect, totalMiss, totalBackspace,
                     lastTimeMs, statsByItem>>

setDigitsSettingsAndReset(next) ==
  LET normalized == NormalizeSettings(next)
  IN  /\ digitsSettings' = normalized
      /\ resetQuestion("digits", enabledSingle, enabledCombo, normalized)
      /\ UNCHANGED <<mode, isRunning, enabledSingle, enabledCombo,
                     totalAttempts, totalCorrect, totalMiss, totalBackspace,
                     lastTimeMs, statsByItem>>

\* enableAllInCurrentMode, had it redrawn the question over the flags as
\* they are
enableAllInCurrentMode_KeepsFlags ==
  /\ IF mode = "digits"
     THEN UNCHANGED <<target, typed, progress, shownAt>>
     ELSE resetQuestion(mode, enabledSingle, enabledCombo, digitsSettings)
  /\ UNCHANGED <<mode, isRunning, enabledSingle, enabledCombo, digitsSettings,
                 totalAttempts, totalCorrect, totalMiss, totalBackspace,
                 lastTimeMs, statsByItem>>

enableAllInCurrentMode ==
  /\ IF mode = "digits"
     THEN UNCHANGED <<enabledSingle, enabledCombo, target, typed, progress,
                      shownAt>>
     ELSE IF mode = "single"
     THEN LET next == initEnabledMap(SINGLE_SYMBOLS)
          IN  /\ enabledSingle' = next
              /\ resetQuestion("single", next, enabledCombo, digitsSettings)
              /\ UNCHANGED enabledCombo
     ELSE LET next == initEnabledMap(COMBOS)
          IN  /\ enabledCombo' = next
              /\ resetQuestion("combo", enabledSingle, next, digitsSettings)
              /\ UNCHANGED enabledSingle
  /\ UNCHANGED <<mode, isRunning, digitsSettings, totalAttempts, totalCorrect,
                 totalMiss, totalBackspace, lastTimeMs, statsByItem>>

\* disableAllInCurrentMode, had it cleared the flags of both catalogs
disableAllInCurrentMode_BothCatalogs ==
  /\ IF mode = "digits"
     THEN UNCHANGED <<enabledSingle, enabledCombo, target, typed, progress,
                      shownAt>>
     ELSE LET nextSingle == [item \in Items(SINGLE_SYMBOLS) |-> FALSE]
              nextCombo == [item \in Items(COMBOS) |-> FALSE]
          IN  /\ enabledSingle' = nextSingle
              /\ enabledCombo' = nextCombo
              /\ resetQuestion(mode, nextSingle, nextCombo, digitsSettings)
  /\ UNCHANGED <<mode, isRunning, digitsSettings, totalAttempts, totalCorrect,
                 totalMiss, totalBackspace, lastTimeMs, statsByItem>>

disableAllInCurrentMode ==
  /\ IF mode = "digits"
     THEN UNCHANGED <<enabledSingle, enabledCombo, target, typed, progress,
                      shownAt>>
     ELSE LET next == [item \in Items(BasePool(mode)) |-> FALSE]
          IN  IF mode = "single"
              THEN /\ enabledSingle' = next
                   /\ resetQuestion("single", next, enabledCombo, digitsSettings)
                   /\ UNCHANGED enabledCombo
              ELSE /\ enabledCombo' = next
                   /\ resetQuestion("combo", enabledSingle, next, digitsSettings)
                   /\ UNCHANGED enabledSingle
  /\ UNCHANGED <<mode, isRunning, digitsSettings, totalAttempts, totalCorrect,
                 totalMiss, totalBackspace, lastTimeMs, statsByItem>>

\* { ...map, [item]: enabled }
WithFlag(map, item, enabled) ==
  [i \in DOMAIN map \cup {item} |-> IF i = item THEN enabled ELSE map[i]]

\* setEnabledForItemInCurrentMode, had it kept the question when its target
\* is still enabled
setEnabledForItemInCurrentMode_KeepsQuestion(item, enabled) ==
  /\ IF mode = "digits"
     THEN UNCHANGED <<enabledSingle, enabledCombo, target, typed, progress,
                      shownAt>>
     ELSE LET next == WithFlag(EnabledMap(mode), item, enabled)
          IN  /\ IF mode = "single"
                 THEN enabledSingle' = next /\ UNCHANGED enabledCombo
                 ELSE enabledCombo' = next /\ UNCHANGED enabledSingle
              /\ IF target # <<>> /\ next[target] # FALSE
                 THEN UNCHANGED <<target, typed, progress, shownAt>>
                 ELSE IF mode = "single"
                 THEN resetQuestion("single", next, enabledCombo, digitsSettings)
                 ELSE resetQuestion("combo", enabledSingle, next, digitsSettings)
  /\ UNCHANGED <<mode, isRunning, digitsSettings, totalAttempts, totalCorrect,
                 totalMiss, totalBackspace, lastTimeMs, statsByItem>>

setEnabledForItemInCurrentMode(item, enabled) ==
  /\ IF mode = "digits"
     THEN UNCHANGED <<enabledSingle, enabledCombo, target, typed, progress,
                      shownAt>>
     ELSE IF mode = "single"
     THEN LET next == WithFlag(enabledSingle, item, enabled)
          IN  /\ enabledSingle' = next
              /\ resetQuestion("single", next, enabledCombo, digitsSettings)
              /\ UNCHANGED enabledCombo
     ELSE LET next == WithFlag(enabledCombo, item, enabled)
          IN  /\ enabledCombo' = next
              /\ resetQuestion("combo", enabledSingle, next, digitsSettings)
              /\ UNCHANGED enabledSingle
  /\ UNCHANGED <<mode, isRunning, digitsSettings, totalAttempts, totalCorrect,
                 totalMiss, totalBackspace, lastTimeMs, statsByItem>>

\* --------------------------------------------- DigitsSettingsForm onChange
\* Number(e.target.value) is `entered`; the form clamps it against the other
\* bound before it calls onChange
\* FormMinInt, had it raised the maximum to an entered minimum above it
FormMinInt_RaisesMax(entered) ==
  LET v == clampInt(entered, 1, 50)
  IN  [digitsSettings EXCEPT
         !.minIntDigits = v,
         !.maxIntDigits = Max(v, digitsSettings.maxIntDigits)]

FormMinInt(entered) ==
  LET v == clampInt(entered, 1, 50)
  IN  [digitsSettings EXCEPT
         !.minIntDigits = Min(v, digitsSettings.maxIntDigits)]

FormMaxInt(entered) ==
  LET v == clampInt(entered, 1, 50)
  IN  [digitsSettings EXCEPT
         !.maxIntDigits = Max(v, digitsSettings.minIntDigits)]

FormMinFrac(entered) ==
  LET v == clampInt(entered, 1, 50)
  IN  [digitsSettings EXCEPT
         !.minFracDigits = Min(v, digitsSettings.maxFracDigits)]

FormMaxFrac(entered) ==
  LET v == clampInt(entered, 1, 50)
  IN  [digitsSettings EXCEPT
         !.maxFracDigits = Max(v, digitsSettings.minFracDigits)]

FormSign == [digitsSettings EXCEPT !.enableSign = ~digitsSettings.enableSign]

FormDecimal ==
  [digitsSettings EXCEPT !.enableDecimal = ~digitsSettings.enableDecimal]

\* ------------------------------------------------------------ environment
Modes == {"single", "combo", "digits"}

\* key identifiers pressed besides the characters of the target: a character
\* of no catalog, and named keys
OtherKeys == {"x", "Backspace", "Enter", "Tab", "Escape", "Dead", "Shift"}

NoModifier == [metaKey |-> FALSE, ctrlKey |-> FALSE, altKey |-> FALSE]

Modifiers ==
  {NoModifier,
   [NoModifier EXCEPT !.metaKey = TRUE],
   [NoModifier EXCEPT !.ctrlKey = TRUE],
   [NoModifier EXCEPT !.altKey = TRUE]}

KeyEvent(k, m) ==
  [key |-> k, metaKey |-> m.metaKey, ctrlKey |-> m.ctrlKey, altKey |-> m.altKey]

\* the keydown events explored in a state: every key alone, and the expected
\* character, a wrong character and Backspace with each modifier
KeyEvents ==
  {KeyEvent(k, NoModifier) : k \in Chars(target) \cup OtherKeys}
    \cup {KeyEvent(k, m) :
            k \in Chars(CharAt(target, Len(progress))) \cup {"x", "Backspace"},
            m \in Modifiers}

\* values typed into a numeric field of the settings form: 0, 2.5, 60
EnteredValues == {Num(0), Half(5), Num(60)}

\* the checkbox toggled by itself: the first one of the picker
ToggleItems ==
  LET list == IF mode = "combo" THEN COMBOS ELSE SINGLE_SYMBOLS
  IN  {list[1]}

\* keydown events, as long as the counters stay within the bound
KeyDownUpTo(maxKeys) ==
  \E e \in KeyEvents :
    /\ onKeyDown(e)
    /\ totalAttempts' + totalBackspace' <= maxKeys
    /\ UNCHANGED <<now, edits, lastEvent>>
    /\ Subscribe
    /\ UNCHANGED call

KeyDown == KeyDownUpTo(MaxKeys)

KeyDownFew == KeyDownUpTo(MaxFewKeys)

\* the same, with the event delivered to the handler written to lastEvent
KeyDownLogged ==
  \E e \in KeyEvents :
    /\ onKeyDown(e)
    /\ totalAttempts' + totalBackspace' <= MaxFewKeys
    /\ lastEvent' = e
    /\ UNCHANGED <<now, edits>>
    /\ Subscribe
    /\ UNCHANGED call

\* keydown events off the record
KeyDownQuiet ==
  \E e \in KeyEvents :
    /\ onKeyDown(e)
    /\ totalAttempts' + totalBackspace' <= MaxFewKeys
    /\ lastEvent' = NoEvent
    /\ UNCHANGED <<now, edits>>
    /\ Subscribe
    /\ UNCHANGED call

\* the change or click event of a control of the page, as lastEvent holds it
ControlEvent(name) ==
  [key |-> name, metaKey |-> FALSE, ctrlKey |-> FALSE, altKey |-> FALSE]

\* the mode select, its change event written to lastEvent
ChangeModeLogged ==
  /\ \E m \in Modes : setModeAndReset(m)
  /\ lastEvent' = ControlEvent("change:mode")
  /\ UNCHANGED <<now, edits>>
  /\ Subscribe
  /\ UNCHANGED call

\* the Reset button, its click event written to lastEvent
ResetAllLogged ==
  /\ resetAll
  /\ lastEvent' = ControlEvent("click:reset")
  /\ UNCHANGED <<now, edits>>
  /\ Subscribe
  /\ UNCHANGED call

ChangeMode ==
  /\ \E m \in Modes : setModeAndReset(m)
  /\ lastEvent' = NoEvent
  /\ UNCHANGED <<now, edits>>
  /\ Subscribe
  /\ UNCHANGED call

PauseResume ==
  /\ toggleRunning
  /\ lastEvent' = NoEvent
  /\ UNCHANGED <<now, edits>>
  /\ Subscribe
  /\ UNCHANGED call

ResetAll ==
  /\ resetAll
  /\ lastEvent' = NoEvent
  /\ UNCHANGED <<now, edits>>
  /\ Subscribe
  /\ UNCHANGED call

EnableAll ==
  /\ edits < MaxEdits
  /\ edits' = edits + 1
  /\ enableAllInCurrentMode
  /\ lastEvent' = NoEvent
  /\ UNCHANGED now
  /\ Subscribe
  /\ UNCHANGED call

DisableAll ==
  /\ edits < MaxEdits
  /\ edits' = edits + 1
  /\ disableAllInCurrentMode
  /\ lastEvent' = NoEvent
  /\ UNCHANGED now
  /\ Subscribe
  /\ UNCHANGED call

\* the disable-all button where the edits are not counted (the pools it can
\* leave are few)
DisableAllUncounted ==
  /\ disableAllInCurrentMode
  /\ lastEvent' = NoEvent
  /\ UNCHANGED <<now, edits>>
  /\ Subscribe
  /\ UNCHANGED call

\* a checkbox of the picker: e.target.checked is the opposite of what it shows
ToggleItem ==
  /\ edits < MaxEdits
  /\ edits' = edits + 1
  /\ \E item \in ToggleItems :
       setEnabledForItemInCurrentMode(item, ~(EnabledMap(mode)[item] # FALSE))
  /\ lastEvent' = NoEvent
  /\ UNCHANGED now
  /\ Subscribe
  /\ UNCHANGED call

\* the checkboxes toggled in the picker profile: the first and the last one
PickerItems ==
  LET list == IF mode = "combo" THEN COMBOS ELSE SINGLE_SYMBOLS
  IN  {list[1], list[Len(list)]}

\* the picker's buttons and checkboxes, their events written to lastEvent
\* (the edits are not counted: the flag maps they can leave are few)
EnableAllLogged ==
  /\ enableAllInCurrentMode
  /\ lastEvent' = ControlEvent("click:enable-all")
  /\ UNCHANGED <<now, edits>>
  /\ Subscribe
  /\ UNCHANGED call

DisableAllLogged ==
  /\ disableAllInCurrentMode
  /\ lastEvent' = ControlEvent("click:disable-all")
  /\ UNCHANGED <<now, edits>>
  /\ Subscribe
  /\ UNCHANGED call

ToggleItemLogged ==
  /\ \E item \in PickerItems :
       setEnabledForItemInCurrentMode(item, ~(EnabledMap(mode)[item] # FALSE))
  /\ lastEvent' = ControlEvent("change:item")
  /\ UNCHANGED <<now, edits>>
  /\ Subscribe
  /\ UNCHANGED call

\* one more keydown event, once: a key has been delivered to the handler
KeyDownOnce ==
  /\ lastEvent = NoEvent
  /\ subscribed = Closure
  /\ \E e \in KeyEvents : onKeyDown(e)
  /\ lastEvent' = ControlEvent("keydown")
  /\ UNCHANGED <<now, edits>>
  /\ Subscribe
  /\ UNCHANGED call

\* The listener by itself. A keydown event is delivered to the listener now
\* registered, which runs to its end; the render that follows and the keydown
\* effect are a step of their own. The event stays on record until then.
\* The hosting environment delivers one input event at a time and each is
\* handled to completion, render and effects included, before the next.
NoRenderPending == lastEvent = NoEvent

KeyDispatch ==
  /\ NoRenderPending
  /\ \E e \in KeyEvents :
       /\ onKeyDown(e)
       /\ totalAttempts' + totalBackspace' <= MaxKeys
       /\ lastEvent' = e
  /\ UNCHANGED <<now, edits, subscribed, call>>

\* KeyDownEffect, had progress been left out of its dependencies
KeyDownEffect_NoProgressDep ==
  /\ ~NoRenderPending
  /\ subscribed' =
       IF <<subscribed.isRunning, subscribed.mode, subscribed.target>>
            # <<isRunning, mode, target>>
       THEN Closure
       ELSE subscribed
  /\ lastEvent' = NoEvent
  /\ UNCHANGED <<session, now, edits, call>>

\* useEffect(..., [bumpStat, isRunning, mode, nextQuestion, progress, target])
\* after the render: when a dependency changed, the old listener is removed
\* and one closed over the rendered values is added (bumpStat never changes;
\* nextQuestion changes with the mode, the pool or the settings only)
KeyDownEffect ==
  /\ ~NoRenderPending
  /\ subscribed' =
       IF <<subscribed.isRunning, subscribed.mode, subscribed.progress,
            subscribed.target>> # <<isRunning, mode, progress, target>>
       THEN Closure
       ELSE subscribed
  /\ lastEvent' = NoEvent
  /\ UNCHANGED <<session, now, edits, call>>

\* the settings form is rendered in digits mode only; its fraction fields are
\* disabled while enableDecimal is off
EditIntDigits ==
  /\ mode = "digits"
  /\ edits < MaxEdits
  /\ edits' = edits + 1
  /\ \E entered \in EnteredValues :
       \/ setDigitsSettingsAndReset(FormMinInt(entered))
       \/ setDigitsSettingsAndReset(FormMaxInt(entered))
  /\ lastEvent' = NoEvent
  /\ UNCHANGED now
  /\ Subscribe
  /\ UNCHANGED call

EditFracDigits ==
  /\ mode = "digits"
  /\ digitsSettings.enableDecimal
  /\ edits < MaxEdits
  /\ edits' = edits + 1
  /\ \E entered \in EnteredValues :
       \/ setDigitsSettingsAndReset(FormMinFrac(entered))
       \/ setDigitsSettingsAndReset(FormMaxFrac(entered))
  /\ lastEvent' = NoEvent
  /\ UNCHANGED now
  /\ Subscribe
  /\ UNCHANGED call

EditFlags ==
  /\ mode = "digits"
  /\ edits < MaxEdits
  /\ edits' = edits + 1
  /\ \/ setDigitsSettingsAndReset(FormSign)
     \/ setDigitsSettingsAndReset(FormDecimal)
  /\ lastEvent' = NoEvent
  /\ UNCHANGED now
  /\ Subscribe
  /\ UNCHANGED call

\* the same edits where they are not counted (the settings they can leave
\* are few)
EditIntDigitsUncounted ==
  /\ mode = "digits"
  /\ \E entered \in EnteredValues :
       \/ setDigitsSettingsAndReset(FormMinInt(entered))
       \/ setDigitsSettingsAndReset(FormMaxInt(entered))
  /\ lastEvent' = NoEvent
  /\ UNCHANGED <<now, edits>>
  /\ Subscribe
  /\ UNCHANGED call

EditFracDigitsUncounted ==
  /\ mode = "digits"
  /\ digitsSettings.enableDecimal
  /\ \E entered \in EnteredValues :
       \/ setDigitsSettingsAndReset(FormMinFrac(entered))
       \/ setDigitsSettingsAndReset(FormMaxFrac(entered))
  /\ lastEvent' = NoEvent
  /\ UNCHANGED <<now, edits>>
  /\ Subscribe
  /\ UNCHANGED call

EditFlagsUncounted ==
  /\ mode = "digits"
  /\ \/ setDigitsSettingsAndReset(FormSign)
     \/ setDigitsSettingsAndReset(FormDecimal)
  /\ lastEvent' = NoEvent
  /\ UNCHANGED <<now, edits>>
  /\ Subscribe
  /\ UNCHANGED call

\* the wall clock advances between events
Tick ==
  /\ now < MaxTime
  /\ now' = now + 1
  /\ lastEvent' = NoEvent
  /\ UNCHANGED <<session, edits>>
  /\ Subscribe
  /\ UNCHANGED call

\* The typing session: keys, mode changes, pause and resume, full resets
\* (the clock is not advanced).
Next ==
  \/ KeyDown
  \/ ChangeMode
  \/ PauseResume
  \/ ResetAll

Spec == Init /\ [][Next]_vars

\* The running session under the wall clock: keys, mode changes, time passing.
NextClock ==
  \/ KeyDown
  \/ ChangeMode
  \/ Tick

SpecClock == Init /\ [][NextClock]_vars

\* The session with its pool edited through the picker's checkboxes and
\* buttons (the clock is not advanced).
NextPool ==
  \/ KeyDownFew
  \/ ChangeMode
  \/ PauseResume
  \/ ResetAll
  \/ EnableAll
  \/ DisableAll
  \/ ToggleItem

SpecPool == Init /\ [][NextPool]_vars

\* The session with every keydown event on record in lastEvent.
NextKeys ==
  \/ KeyDownLogged
  \/ ChangeMode
  \/ PauseResume
  \/ ResetAll

SpecKeys == Init /\ [][NextKeys]_vars

\* The session with its mode changes on record, under the wall clock and
\* with the pool of a mode emptied.
NextModes ==
  \/ KeyDownQuiet
  \/ ChangeModeLogged
  \/ DisableAllUncounted
  \/ Tick

SpecModes == Init /\ [][NextModes]_vars

\* The session with its full resets on record.
NextReset ==
  \/ KeyDownQuiet
  \/ ChangeMode
  \/ PauseResume
  \/ ResetAllLogged

SpecReset == Init /\ [][NextReset]_vars

\* The picker by itself: its buttons, two of its checkboxes and the mode
\* select, every event on record.
NextPicker ==
  \/ ChangeModeLogged
  \/ EnableAllLogged
  \/ DisableAllLogged
  \/ ToggleItemLogged

SpecPicker == Init /\ [][NextPicker]_vars

\* The statistics of a long session: single mode with a fresh target, after
\* attempts against the first n items of the catalog; one more key is typed.
\* The statistics the items have are drawn from StatPalette, item i taking
\* the entry (i - 1) * stride + offset places on (cyclically).
MaxStatItems == 12

StatItems == SubSeq(SINGLE_SYMBOLS, 1, MaxStatItems)

StatPalette ==
  << [attempts |-> 1, correct |-> 0, totalMs |-> 0],
     [attempts |-> 1, correct |-> 1, totalMs |-> 2],
     [attempts |-> 2, correct |-> 1, totalMs |-> 1],
     [attempts |-> 4, correct |-> 1, totalMs |-> 500],
     [attempts |-> 2, correct |-> 2, totalMs |-> 3],
     [attempts |-> 2, correct |-> 0, totalMs |-> 0],
     [attempts |-> 4, correct |-> 2, totalMs |-> 4] >>

StatStrides == {0, 1, 3}

RECURSIVE SumTo(_, _)
SumTo(f, n) == IF n = 0 THEN 0 ELSE f[n] + SumTo(f, n - 1)

InitStats ==
  \E n \in 0 .. MaxStatItems, stride \in StatStrides,
     offset \in 0 .. Len(StatPalette) - 1 :
    LET drawn == [i \in 1 .. n |->
                    StatPalette[(((i - 1) * stride + offset)
                                    % Len(StatPalette)) + 1]]
        attempts == SumTo([i \in 1 .. n |-> drawn[i].attempts], n)
        correct == SumTo([i \in 1 .. n |-> drawn[i].correct], n)
        allMs == SumTo([i \in 1 .. n |-> drawn[i].totalMs], n)
        \* the completion that came last: the only one of its item, or one
        \* made the moment the target was shown
        lastDone == IF correct = 0 THEN 0
                    ELSE CHOOSE i \in 1 .. n : drawn[i].correct > 0
    IN  /\ mode = "single"
        /\ isRunning = TRUE
        /\ enabledSingle = initEnabledMap(SINGLE_SYMBOLS)
        /\ enabledCombo = initEnabledMap(COMBOS)
        /\ digitsSettings = [minIntDigits |-> 3, maxIntDigits |-> 7,
                             enableSign |-> FALSE, enableDecimal |-> FALSE,
                             minFracDigits |-> 1, maxFracDigits |-> 4]
        /\ \E r \in Rand : target = pickRandom(SINGLE_SYMBOLS, r)
        /\ typed = <<>>
        /\ progress = <<>>
        /\ totalAttempts = attempts
        /\ totalCorrect = correct
        /\ totalMiss = attempts - correct
        /\ totalBackspace = 0
        /\ lastTimeMs = IF correct = 0 THEN NoTime
                        ELSE IF drawn[lastDone].correct = 1
                        THEN drawn[lastDone].totalMs
                        ELSE 0
        /\ statsByItem = [item \in {StatItems[i] : i \in 1 .. n} |->
                            drawn[IndexIn(StatItems, item)]]
        /\ now = allMs
        /\ shownAt = now
        /\ edits = 0
        /\ lastEvent = NoEvent
        /\ subscribed = Closure
  /\ subscribed = Closure
  /\ call = NoCall

NextStats == KeyDownOnce

SpecStats == InitStats /\ [][NextStats]_vars

\* The whole page under the wall clock, every event on record and counted
\* in edits: behaviours of at most MaxEvents events, each a keydown event,
\* a change of the mode select, a click on Pause / Resume or Reset, a change
\* of the first checkbox of the picker, a click on its enable-all or its
\* disable-all button, a
\* change of the sign checkbox of the settings form, or the clock advancing.
MaxEvents == 4

PageEvent(name, handled) ==
  /\ edits < MaxEvents
  /\ edits' = edits + 1
  /\ handled
  /\ lastEvent' = ControlEvent(name)
  /\ Subscribe
  /\ UNCHANGED call

NextPage ==
  \/ PageEvent("keydown", (\E e \in KeyEvents : onKeyDown(e)) /\ UNCHANGED now)
  \/ PageEvent("change:mode",
               (\E m \in Modes \ {mode} : setModeAndReset(m)) /\ UNCHANGED now)
  \/ PageEvent("click:pause", toggleRunning /\ UNCHANGED now)
  \/ PageEvent("click:reset", resetAll /\ UNCHANGED now)
  \/ PageEvent("change:item",
               /\ mode # "digits"
               /\ \E item \in ToggleItems :
                    setEnabledForItemInCurrentMode(
                      item, ~(EnabledMap(mode)[item] # FALSE))
               /\ UNCHANGED now)
  \/ PageEvent("click:enable-all",
               mode # "digits" /\ enableAllInCurrentMode /\ UNCHANGED now)
  \/ PageEvent("click:disable-all",
               mode # "digits" /\ disableAllInCurrentMode /\ UNCHANGED now)
  \/ PageEvent("change:settings",
               /\ mode = "digits"
               /\ setDigitsSettingsAndReset(FormSign)
               /\ UNCHANGED now)
  \/ PageEvent("tick", now' = now + 1 /\ UNCHANGED session)

SpecPage == Init /\ [][NextPage]_vars

\* the change event of a number field of the settings form, with
\* Number(e.target.value)
FormEvent(name, entered) ==
  [key |-> name, metaKey |-> FALSE, ctrlKey |-> FALSE, altKey |-> FALSE,
   value |-> entered]

\* a number field of the settings form changes: onChange(next), on record
\* and counted in edits
FormChange(name, entered, next) ==
  /\ mode = "digits"
  /\ edits < MaxEvents
  /\ edits' = edits + 1
  /\ setDigitsSettingsAndReset(next)
  /\ lastEvent' = FormEvent(name, entered)
  /\ UNCHANGED now
  /\ Subscribe
  /\ UNCHANGED call

\* The settings form in use: behaviours of at most MaxEvents events, each a
\* keydown event, a change of the mode select, or a change of one of the
\* four number fields or two checkboxes of the settings form (rendered in
\* digits mode only, the fraction fields disabled while enableDecimal is
\* off).
NextDigits ==
  \/ PageEvent("keydown", (\E e \in KeyEvents : onKeyDown(e)) /\ UNCHANGED now)
  \/ PageEvent("change:mode",
               (\E m \in Modes \ {mode} : setModeAndReset(m)) /\ UNCHANGED now)
  \/ \E entered \in EnteredValues :
       FormChange("change:minInt", entered, FormMinInt(entered))
  \/ \E entered \in EnteredValues :
       FormChange("change:maxInt", entered, FormMaxInt(entered))
  \/ \E entered \in EnteredValues :
       /\ digitsSettings.enableDecimal
       /\ FormChange("change:minFrac", entered, FormMinFrac(entered))
  \/ \E entered \in EnteredValues :
       /\ digitsSettings.enableDecimal
       /\ FormChange("change:maxFrac", entered, FormMaxFrac(entered))
  \/ PageEvent("change:sign",
               /\ mode = "digits"
               /\ setDigitsSettingsAndReset(FormSign)
               /\ UNCHANGED now)
  \/ PageEvent("change:decimal",
               /\ mode = "digits"
               /\ setDigitsSettingsAndReset(FormDecimal)
               /\ UNCHANGED now)

SpecDigits == Init /\ [][NextDigits]_vars

\* The keydown listener and its effect as separate steps, with mode changes.
NextListener ==
  \/ KeyDispatch
  \/ KeyDownEffect
  \/ NoRenderPending /\ ChangeMode

SpecListener == Init /\ [][NextListener]_vars

\* The generator by itself: generateDigitsTarget applied, again and again, to
\* settings of every kind, digit counts below 1, above 50 and with min above
\* max included.
GenDigitCounts == {0, 2, 4, 51}

GenSettings ==
  [minIntDigits : GenDigitCounts, maxIntDigits : GenDigitCounts,
   enableSign : BOOLEAN, enableDecimal : BOOLEAN,
   minFracDigits : GenDigitCounts, maxFracDigits : GenDigitCounts]

InitGen ==
  /\ mode = "digits"
  /\ isRunning = TRUE
  /\ enabledSingle = initEnabledMap(SINGLE_SYMBOLS)
  /\ enabledCombo = initEnabledMap(COMBOS)
  /\ digitsSettings \in GenSettings
  /\ target \in generateDigitsTarget(digitsSettings)
  /\ typed = <<>>
  /\ progress = <<>>
  /\ totalAttempts = 0
  /\ totalCorrect = 0
  /\ totalMiss = 0
  /\ totalBackspace = 0
  /\ lastTimeMs = NoTime
  /\ statsByItem = NoStats
  /\ now = 0
  /\ shownAt = now
  /\ edits = 0
  /\ lastEvent = NoEvent
  /\ subscribed = Closure
  /\ call = NoCall

Generate ==
  /\ target' \in generateDigitsTarget(digitsSettings)
  /\ UNCHANGED <<mode, isRunning, enabledSingle, enabledCombo, digitsSettings,
                 typed, progress, totalAttempts, totalCorrect, totalMiss,
                 totalBackspace, lastTimeMs, statsByItem, shownAt, now, edits,
                 lastEvent>>
  /\ Subscribe
  /\ UNCHANGED call

NextGen == Generate

SpecGen == InitGen /\ [][NextGen]_vars

\* The session with its numeric settings edited through the settings form.
NextSettings ==
  \/ KeyDownFew
  \/ ChangeMode
  \/ ResetAll
  \/ EditIntDigits
  \/ EditFracDigits
  \/ EditFlags

SpecSettings == Init /\ [][NextSettings]_vars

\* The settings form by itself: any number of edits, in any order.
NextForm ==
  \/ ChangeMode
  \/ EditIntDigitsUncounted
  \/ EditFracDigitsUncounted
  \/ EditFlagsUncounted

SpecForm == Init /\ [][NextForm]_vars

\* ================================================================ claims
\* the statistic of an item, zero when it has none yet
StatOf(item) ==
  IF item \in DOMAIN statsByItem
  THEN statsByItem[item]
  ELSE [attempts |-> 0, correct |-> 0, totalMs |-> 0]

\* statsByItem' differs from statsByItem in the entry of item alone, which is stat
OnlyStatSet(item, stat) ==
  /\ DOMAIN statsByItem' = DOMAIN statsByItem \cup {item}
  /\ statsByItem'[item] = stat
  /\ \A i \in DOMAIN statsByItem \ {item} : statsByItem'[i] = statsByItem[i]

\* the one-character keys explored in a state
PlainKeys == {k \in Chars(target) \cup OtherKeys : Len(k) = 1}

SymbolModes == {"single", "combo"}

\* s without its last character, '' staying ''
WithoutLast(s) == IF s = <<>> THEN <<>> ELSE [i \in 1 .. (Len(s) - 1) |-> s[i]]

\* C1: in single and combo mode the progress buffer is empty or a proper
\* prefix of the target, whatever keys, mode changes, pool edits,
\* pause/resume and resets came before.
C1_ProgressProperPrefix ==
  mode \in SymbolModes =>
    \/ progress = <<>>
    \/ /\ Len(progress) < Len(target)
       /\ \A i \in 1 .. Len(progress) : progress[i] = target[i]

\* a combo partly matched after the pool was edited and an attempt was made
C1_Witness ==
  /\ mode = "combo"
  /\ progress # <<>>
  /\ edits > 0
  /\ totalAttempts > 0

\* C2: a key that completes the target (any mode, running, no modifier)
\* adds 1 to totalAttempts and totalCorrect, leaves totalMiss and
\* totalBackspace, adds attempts+1, correct+1 and the elapsed time to the
\* statistic of the completed target, stores the elapsed time in lastTimeMs,
\* draws a new target (pool or generator) and empties typed and progress.
C2_CompletionStep(k) ==
  LET elapsed == now - shownAt
      old == StatOf(target)
  IN  (/\ isRunning
       /\ Append(progress, k) = target
       /\ onKeyDown(KeyEvent(k, NoModifier)))
      => /\ totalAttempts' = totalAttempts + 1
         /\ totalCorrect' = totalCorrect + 1
         /\ totalMiss' = totalMiss
         /\ totalBackspace' = totalBackspace
         /\ OnlyStatSet(target, [attempts |-> old.attempts + 1,
                                 correct |-> old.correct + 1,
                                 totalMs |-> old.totalMs + elapsed])
         /\ lastTimeMs' = elapsed
         /\ target' \in (IF mode = "digits"
                         THEN generateDigitsTarget(digitsSettings)
                         ELSE Items(pool))
         /\ typed' = <<>>
         /\ progress' = <<>>

C2_Completion == [][\A k \in PlainKeys : C2_CompletionStep(k)]_vars

\* a combo and a numeric literal both completed, the last one after 1 ms
C2_Witness ==
  /\ \E c \in Items(COMBOS) \cap DOMAIN statsByItem : statsByItem[c].correct = 1
  /\ \E d \in generateDigitsTarget(digitsSettings) \cap DOMAIN statsByItem :
       statsByItem[d].correct = 1 /\ statsByItem[d].totalMs = 1
  /\ totalCorrect = 2
  /\ lastTimeMs = 1
  /\ typed = <<>>
  /\ progress = <<>>

\* C3: in single/combo mode a key that breaks the prefix adds 1 to
\* totalAttempts and totalMiss, leaves totalCorrect, adds one attempt (no
\* correct, no duration) to the statistic of the target, empties progress,
\* appends the key to typed and keeps the target.
C3_MismatchStep(k) ==
  LET old == StatOf(target)
  IN  (/\ isRunning
       /\ mode \in SymbolModes
       /\ target # <<>>
       /\ ~StartsWith(target, Append(progress, k))
       /\ onKeyDown(KeyEvent(k, NoModifier)))
      => /\ totalAttempts' = totalAttempts + 1
         /\ totalMiss' = totalMiss + 1
         /\ totalCorrect' = totalCorrect
         /\ OnlyStatSet(target, [old EXCEPT !.attempts = old.attempts + 1])
         /\ progress' = <<>>
         /\ typed' = Append(typed, k)
         /\ target' = target

C3_SymbolMismatch == [][\A k \in PlainKeys : C3_MismatchStep(k)]_vars

\* a combo mistyped after its first character had matched
C3_Witness ==
  /\ mode = "combo"
  /\ totalMiss = 1
  /\ Len(typed) = 2
  /\ typed[1] = target[1]
  /\ progress = <<>>
  /\ StatOf(target).attempts = 1

\* C4: in numeric mode a key other than the expected character adds 1 to
\* totalAttempts and totalMiss, records one failed attempt against the
\* target, and leaves progress, typed and the target as they are.
C4_MismatchStep(k) ==
  LET old == StatOf(target)
  IN  (/\ isRunning
       /\ mode = "digits"
       /\ target # <<>>
       /\ <<k>> # CharAt(target, Len(progress))
       /\ onKeyDown(KeyEvent(k, NoModifier)))
      => /\ totalAttempts' = totalAttempts + 1
         /\ totalMiss' = totalMiss + 1
         /\ OnlyStatSet(target, [old EXCEPT !.attempts = old.attempts + 1])
         /\ progress' = progress
         /\ typed' = typed
         /\ target' = target

C4_DigitsMismatch == [][\A k \in PlainKeys : C4_MismatchStep(k)]_vars

\* two misses against a literal that is partly typed
C4_Witness ==
  /\ mode = "digits"
  /\ progress # <<>>
  /\ totalMiss = 2
  /\ StatOf(target) = [attempts |-> 2, correct |-> 0, totalMs |-> 0]

\* C5: Backspace in numeric mode (running, a target, no ctrl/meta/alt) adds 1
\* to totalBackspace and drops the last character of typed and of progress
\* (empty buffers stay empty); the other counters, the statistics, lastTimeMs
\* and the target are unchanged.
C5_Backspace ==
  [][(/\ isRunning
      /\ mode = "digits"
      /\ target # <<>>
      /\ onKeyDown(KeyEvent("Backspace", NoModifier)))
     => /\ totalBackspace' = totalBackspace + 1
        /\ typed' = WithoutLast(typed)
        /\ progress' = WithoutLast(progress)
        /\ UNCHANGED <<totalAttempts, totalCorrect, totalMiss, statsByItem,
                       lastTimeMs, target>>]_vars

\* Backspace was pressed and a literal is partly typed again
C5_Witness ==
  /\ mode = "digits"
  /\ totalBackspace = 1
  /\ progress # <<>>

\* C6 as stated: in single/combo mode typed equals progress in every state.
C6_TypedEqualsProgress == mode \in SymbolModes => typed = progress

\* C6 as amended: in single/combo mode progress is the end of typed, and the
\* two differ only after a miss against the current target (the miss empties
\* progress and keeps typed, mistyped key included).
C6_ProgressEndsTyped ==
  mode \in SymbolModes =>
    /\ Len(progress) <= Len(typed)
    /\ \A i \in 1 .. Len(progress) :
         progress[i] = typed[Len(typed) - Len(progress) + i]
    /\ typed # progress => StatOf(target).attempts > StatOf(target).correct

\* a combo mistyped, then matched again on its first character
C6_Witness ==
  /\ mode = "combo"
  /\ progress # <<>>
  /\ Len(typed) > Len(progress)

\* C7: in numeric mode typed equals progress and both are a proper prefix of
\* the target; a key changes typed only by appending the expected character
\* (or by completing the target, which empties it) or, for Backspace, by
\* dropping the last character; a mismatching key never changes typed.
C7_DigitsBuffers ==
  mode = "digits" =>
    /\ typed = progress
    /\ Len(progress) < Len(target)
    /\ \A i \in 1 .. Len(progress) : progress[i] = target[i]

C7_KeyStep(e) ==
  LET plain == ~(e.metaKey \/ e.ctrlKey \/ e.altKey)
      matches == plain /\ isRunning /\ <<e.key>> = CharAt(target, Len(progress))
  IN  (mode = "digits" /\ onKeyDown(e))
      => /\ typed' # typed =>
              \/ plain /\ e.key = "Backspace" /\ typed' = WithoutLast(typed)
              \/ /\ matches
                 /\ \/ typed' = Append(typed, e.key)
                    \/ Append(typed, e.key) = target /\ typed' = <<>>
         /\ (Len(e.key) = 1 /\ ~matches) => typed' = typed

C7_DigitsTyped ==
  /\ []C7_DigitsBuffers
  /\ [][\A e \in KeyEvents : C7_KeyStep(e)]_vars

\* a literal partly typed, after a miss and a Backspace
C7_Witness ==
  /\ mode = "digits"
  /\ typed # <<>>
  /\ totalMiss > 0
  /\ totalBackspace > 0

\* C8: while the session is paused every key event leaves the whole session
\* state as it is, so nothing is left to take effect after resuming.
C8_PausedKeysIgnored ==
  [][(/\ ~isRunning
      /\ \/ lastEvent' # NoEvent
         \/ \E e \in KeyEvents : onKeyDown(e))
     => UNCHANGED session]_vars

\* paused, and the last step was the key the target starts with
C8_Witness ==
  /\ ~isRunning
  /\ target # <<>>
  /\ progress = <<>>
  /\ lastEvent = KeyEvent(target[1], NoModifier)

\* C9: with every item of the current catalog disabled the target is the
\* empty marker and the buffers are empty; with no target a key event changes
\* nothing; with a non-empty pool the target is one of its items.
C9_PoolState ==
  mode \in SymbolModes =>
    IF Len(pool) = 0
    THEN target = <<>> /\ typed = <<>> /\ progress = <<>>
    ELSE target \in Items(pool)

C9_EmptyPool ==
  /\ []C9_PoolState
  /\ [][\A e \in KeyEvents :
          (target = <<>> /\ onKeyDown(e)) => UNCHANGED session]_vars

\* every checkbox was cleared and the first one set again: it is the target
C9_Witness ==
  /\ mode = "combo"
  /\ pool = <<COMBOS[1]>>
  /\ target = COMBOS[1]

\* C10: a key event with ctrl, meta or alt held, the key Dead, the keys
\* Enter, Tab and Escape, and any other key identifier that is not one
\* character long (Backspace in numeric mode aside) leave the whole session
\* state as it is.
C10_Ignorable(e) ==
  \/ e.metaKey \/ e.ctrlKey \/ e.altKey
  \/ e.key \in {"Dead", "Enter", "Tab", "Escape"}
  \/ Len(e.key) # 1 /\ ~(mode = "digits" /\ e.key = "Backspace")

C11_BackspaceStep(m) ==
  (/\ mode \in SymbolModes
   /\ \/ lastEvent' = KeyEvent("Backspace", m)
      \/ onKeyDown(KeyEvent("Backspace", m)))
  => UNCHANGED session

C11_BackspaceDigitsOnly ==
  /\ [][\A m \in Modifiers : C11_BackspaceStep(m)]_vars
  /\ [][totalBackspace' > totalBackspace => mode = "digits" /\ mode' = "digits"]_vars

\* Backspace was counted in numeric mode; the last step was Backspace on a
\* combo partly matched, which is still partly matched
C11_Witness ==
  /\ isRunning
  /\ mode = "combo"
  /\ progress # <<>>
  /\ totalBackspace = 1
  /\ lastEvent = KeyEvent("Backspace", NoModifier)

\* the targets resetQuestion can draw for mode m in the current state
FreshTargets(m) ==
  IF m = "digits"
  THEN generateDigitsTarget(digitsSettings)
  ELSE LET p == FilterEnabled(BasePool(m), EnabledMap(m))
       IN  IF Len(p) = 0 THEN {<<>>} ELSE Items(p)

\* C12: a mode change to m, from any state, draws a target for m (generator
\* for numeric mode; an item of the effective pool of m, or '' when that pool
\* is empty), empties typed and progress, sets the shown-at time to the
\* clock, and keeps the four counters and every per-item statistic.
C12_ModeChangeStep(m) ==
  (lastEvent' = ControlEvent("change:mode") /\ mode' = m)
  => /\ target' \in FreshTargets(m)
     /\ typed' = <<>>
     /\ progress' = <<>>
     /\ shownAt' = now
     /\ UNCHANGED <<totalAttempts, totalCorrect, totalMiss, totalBackspace,
                    statsByItem>>

C12_ModeChange == [][\A m \in Modes : C12_ModeChangeStep(m)]_vars

\* the last step changed the mode to combo, whose pool is empty, 1 ms after
\* the start, and the attempt made before is still counted
C12_Witness ==
  /\ lastEvent = ControlEvent("change:mode")
  /\ mode = "combo"
  /\ target = <<>>
  /\ shownAt = 1
  /\ totalAttempts = 1
  /\ statsByItem # NoStats

\* C13: a full reset, in any mode, running or paused, zeroes the four
\* counters, empties the per-item statistics (the ranked view is computed
\* from them alone), clears lastTimeMs, draws a target for the current mode
\* and empties typed and progress.
C13_FullReset ==
  [][lastEvent' = ControlEvent("click:reset")
     => /\ totalAttempts' = 0
        /\ totalCorrect' = 0
        /\ totalMiss' = 0
        /\ totalBackspace' = 0
        /\ DOMAIN statsByItem' = {}
        /\ lastTimeMs' = NoTime
        /\ target' \in FreshTargets(mode)
        /\ typed' = <<>>
        /\ progress' = <<>>
        /\ UNCHANGED <<mode, isRunning>>]_vars

\* the last step was a full reset of a paused numeric session
C13_Witness ==
  /\ lastEvent = ControlEvent("click:reset")
  /\ ~isRunning
  /\ mode = "digits"
  /\ totalAttempts = 0
  /\ statsByItem = NoStats

\* C14: a key that extends the match without completing it (single/combo:
\* the target starts with progress+k; numeric: k is the expected character;
\* progress+k is not the whole target) appends k to progress and to typed
\* and leaves the target, the four counters, lastTimeMs and every per-item
\* statistic as they are.
C14_ExtendStep(k) ==
  LET nextProgress == Append(progress, k)
      extends == IF mode = "digits"
                 THEN <<k>> = CharAt(target, Len(progress))
                 ELSE StartsWith(target, nextProgress)
  IN  (/\ isRunning
       /\ extends
       /\ nextProgress # target
       /\ onKeyDown(KeyEvent(k, NoModifier)))
      => /\ progress' = nextProgress
         /\ typed' = Append(typed, k)
         /\ UNCHANGED <<target, totalAttempts, totalCorrect, totalMiss,
                        totalBackspace, lastTimeMs, statsByItem>>

C14_Extend == [][\A k \in PlainKeys : C14_ExtendStep(k)]_vars

\* two characters of a numeric literal matched, nothing counted so far
C14_Witness ==
  /\ mode = "digits"
  /\ Len(progress) = 2
  /\ typed = progress
  /\ totalAttempts = 0
  /\ statsByItem = NoStats
  /\ lastTimeMs = NoTime

\* ---- the parts of a numeric literal, read off its characters
DigitChars == {"0", "1", "2", "3", "4", "5", "6", "7", "8", "9"}

SignChars == {"+", "-"}

\* the positions of lit that hold one of chars
Positions(lit, chars) == {i \in 1 .. Len(lit) : lit[i] \in chars}

\* lit without the sign in front, if it has one
Unsigned(lit) ==
  IF lit # <<>> /\ lit[1] \in SignChars THEN SubSeq(lit, 2, Len(lit)) ELSE lit

HasPoint(lit) == Positions(lit, {"."}) # {}

\* the position of the first '.' of u, Len(u) + 1 when it has none
PointAt(u) ==
  IF HasPoint(u)
  THEN CHOOSE i \in Positions(u, {"."}) : \A j \in Positions(u, {"."}) : i <= j
  ELSE Len(u) + 1

\* what stands before the first '.' (all of it when there is none), sign aside
IntPart(lit) == SubSeq(Unsigned(lit), 1, PointAt(Unsigned(lit)) - 1)

\* what stands after the first '.'
FracPart(lit) ==
  SubSeq(Unsigned(lit), PointAt(Unsigned(lit)) + 1, Len(Unsigned(lit)))

\* s is one digit or more, and digits only
IsDigits(s) == Len(s) >= 1 /\ \A i \in 1 .. Len(s) : s[i] \in DigitChars

\* Len(s) lies between a and b, each brought into 1..50 first, whichever is
\* the larger
CountWithin(s, a, b) ==
  LET ca == Min(50, Max(1, a))
      cb == Min(50, Max(1, b))
  IN  Min(ca, cb) <= Len(s) /\ Len(s) <= Max(ca, cb)

\* C15: for all settings (bounds out of range and min above max included) the
\* integer part of a generated literal has a digit count between the two
\* integer bounds, each clamped to [1,50], and with a decimal point the
\* fraction has a digit count between the two clamped fraction bounds; both
\* parts are digits only, one at least.
C15_DigitCounts ==
  mode = "digits" =>
    /\ IsDigits(IntPart(target))
    /\ CountWithin(IntPart(target), digitsSettings.minIntDigits,
                   digitsSettings.maxIntDigits)
    /\ HasPoint(target) =>
         /\ IsDigits(FracPart(target))
         /\ CountWithin(FracPart(target), digitsSettings.minFracDigits,
                        digitsSettings.maxFracDigits)

\* integer bounds 51 and 4 (min above max, min above 50) and fraction bounds
\* both 51: a literal of 27 integer digits and 50 fraction digits
C15_Witness ==
  /\ digitsSettings.minIntDigits = 51
  /\ digitsSettings.maxIntDigits = 4
  /\ digitsSettings.minFracDigits = 51
  /\ digitsSettings.maxFracDigits = 51
  /\ Len(IntPart(target)) = 27
  /\ Len(FracPart(target)) = 50

\* C16: a generated literal without a decimal point has a first digit in
\* 1..9, whatever its length, one included.
C16_NoLeadingZero ==
  (mode = "digits" /\ ~HasPoint(target)) =>
    Unsigned(target)[1] \in DigitChars \ {"0"}

\* a pure integer of one digit, and it is not 0
C16_Witness ==
  /\ mode = "digits"
  /\ ~HasPoint(target)
  /\ Len(Unsigned(target)) = 1
  /\ digitsSettings.minIntDigits = 0

\* C17: a generated literal has a sign only with enableSign on; the sign is
\* one character, '+' or '-', in front; with enableSign off the literal
\* starts with a digit.
C17_Sign ==
  mode = "digits" =>
    /\ Positions(target, SignChars) \subseteq {1}
    /\ Positions(target, SignChars) # {} => digitsSettings.enableSign
    /\ ~digitsSettings.enableSign => target[1] \in DigitChars

\* a literal with a minus in front
C17_Witness ==
  /\ mode = "digits"
  /\ digitsSettings.enableSign
  /\ target[1] = "-"
  /\ IsDigits(IntPart(target))

\* C18: a generated literal has a decimal point only with enableDecimal on;
\* it is then the one '.', between an integer part and a fraction of one
\* digit or more each, after the sign if any; with enableDecimal off there is
\* no '.' whatever the fraction bounds are.
C18_DecimalPoint ==
  mode = "digits" =>
    /\ Cardinality(Positions(target, {"."})) <= 1
    /\ HasPoint(target) =>
         /\ digitsSettings.enableDecimal
         /\ IsDigits(IntPart(target))
         /\ IsDigits(FracPart(target))
         /\ target \in {sign \o IntPart(target) \o <<".">> \o FracPart(target) :
                          sign \in {<<>>, <<"+">>, <<"-">>}}
    /\ ~digitsSettings.enableDecimal => ~HasPoint(target)

\* a signed literal with a decimal point
C18_Witness ==
  /\ mode = "digits"
  /\ HasPoint(target)
  /\ target[1] = "+"
  /\ Len(FracPart(target)) > 1

\* C19: the integer part of a generated literal starts with '0' only when a
\* decimal point follows it (and then it may: the witness); a literal
\* without a decimal point never starts its digits with '0'.
C19_LeadingZero ==
  mode = "digits" =>
    /\ IntPart(target)[1] = "0" => HasPoint(target)
    /\ ~HasPoint(target) => IntPart(target)[1] # "0"

\* a literal with a decimal point whose integer part, of several digits,
\* starts with 0
C19_Witness ==
  /\ mode = "digits"
  /\ HasPoint(target)
  /\ Len(IntPart(target)) > 1
  /\ IntPart(target)[1] = "0"

\* C20: the stored settings always satisfy 1 <= minIntDigits <= maxIntDigits
\* <= 50 and 1 <= minFracDigits <= maxFracDigits <= 50, whatever was entered
\* in the form (below 1, above 50, a min above the max, a max below the min)
\* and however often.
C20_SettingsInRange ==
  /\ 1 <= digitsSettings.minIntDigits
  /\ digitsSettings.minIntDigits <= digitsSettings.maxIntDigits
  /\ digitsSettings.maxIntDigits <= 50
  /\ 1 <= digitsSettings.minFracDigits
  /\ digitsSettings.minFracDigits <= digitsSettings.maxFracDigits
  /\ digitsSettings.maxFracDigits <= 50

\* 0 was entered as the integer max (stored as the min, 3) and 60 as both
\* fraction bounds (stored as 50)
C20_Witness ==
  /\ digitsSettings.minIntDigits = 3
  /\ digitsSettings.maxIntDigits = 3
  /\ digitsSettings.minFracDigits = 50
  /\ digitsSettings.maxFracDigits = 50

\* ---------------------------------------------------------------- C21
\* C21 as stated: the single catalog has exactly 28 items of one character
\* and the combo catalog exactly 18 items of 2 or 3 characters.
C21_CatalogSizesAsStated ==
  /\ Len(SINGLE_SYMBOLS) = 28
  /\ \A i \in 1 .. Len(SINGLE_SYMBOLS) : Len(SINGLE_SYMBOLS[i]) = 1
  /\ Len(COMBOS) = 18
  /\ \A i \in 1 .. Len(COMBOS) : Len(COMBOS[i]) \in {2, 3}
  /\ mode = "single" /\ enabledSingle = initEnabledMap(SINGLE_SYMBOLS)
       => Len(pool) = 28
  /\ mode = "combo" /\ enabledCombo = initEnabledMap(COMBOS)
       => Len(pool) = 18

\* C21 (amended): the single catalog has exactly 32 items, each one
\* character long, and the combo catalog exactly 23 items, each 2 or 3
\* characters long; with every flag at its default these are the sizes of
\* the pool a mode offers.
C21_CatalogSizes ==
  /\ Len(SINGLE_SYMBOLS) = 32
  /\ \A i \in 1 .. Len(SINGLE_SYMBOLS) : Len(SINGLE_SYMBOLS[i]) = 1
  /\ Len(COMBOS) = 23
  /\ \A i \in 1 .. Len(COMBOS) : Len(COMBOS[i]) \in {2, 3}
  /\ mode = "single" /\ enabledSingle = initEnabledMap(SINGLE_SYMBOLS)
       => Len(pool) = 32
  /\ mode = "combo" /\ enabledCombo = initEnabledMap(COMBOS)
       => Len(pool) = 23

\* the full combo pool is on offer and its twelfth item is the target
C21_Witness ==
  /\ mode = "combo"
  /\ Len(pool) = 23
  /\ target = COMBOS[12]
  /\ Len(target) = 2

\* ---------------------------------------------------------------- C22
\* C22: the effective pool is always exactly the items of the current mode's
\* catalog whose flag is not disabled, in catalog order, and empty in digits
\* mode; the flag maps are independent: a step taken in one mode (a toggle,
\* enable-all, disable-all) changes no flag of the other catalog, and a mode
\* change changes no flag at all.
C22_PoolOfMode ==
  IF mode = "digits" THEN pool = <<>>
  ELSE LET list == IF mode = "single" THEN SINGLE_SYMBOLS ELSE COMBOS
           flags == IF mode = "single" THEN enabledSingle ELSE enabledCombo
       IN  /\ \A item \in Items(list) :
                 item \in Items(pool) <=> flags[item] # FALSE
           /\ Items(pool) \subseteq Items(list)
           /\ \A i, j \in 1 .. Len(pool) :
                 i < j => IndexIn(list, pool[i]) < IndexIn(list, pool[j])

C22_FlagsStep ==
  /\ mode # "single" => enabledSingle' = enabledSingle
  /\ mode # "combo" => enabledCombo' = enabledCombo
  /\ (mode' # mode \/ lastEvent' = ControlEvent("change:mode"))
       => enabledSingle' = enabledSingle /\ enabledCombo' = enabledCombo

C22_PoolAndFlags == []C22_PoolOfMode /\ [][C22_FlagsStep]_vars

\* the first single was switched off, every combo was switched off in combo
\* mode, and back in single mode the pool is the catalog without its first
C22_Witness ==
  /\ mode = "single"
  /\ lastEvent = ControlEvent("change:mode")
  /\ \A item \in Items(COMBOS) : enabledCombo[item] = FALSE
  /\ pool = Tail(SINGLE_SYMBOLS)

\* ---------------------------------------------------------------- C23
\* C23: enable-all leaves the whole catalog of the current mode as the pool,
\* from any flags; straight after disable-all it takes the pool from empty to
\* the whole catalog, and clicked twice in a row it leaves the pool as it is.
C23_EnableAllStep ==
  (lastEvent' = ControlEvent("click:enable-all") /\ mode \in SymbolModes) =>
    /\ pool' = BasePool(mode)
    /\ Len(pool') = Len(BasePool(mode))
    /\ lastEvent = ControlEvent("click:disable-all") => pool = <<>>
    /\ lastEvent = ControlEvent("click:enable-all") => pool' = pool

C23_EnableAll == [][C23_EnableAllStep]_vars

\* combo mode after enable-all: the whole catalog is the pool again, while
\* the singles switched off earlier stay off
C23_Witness ==
  /\ mode = "combo"
  /\ lastEvent = ControlEvent("click:enable-all")
  /\ pool = COMBOS
  /\ \A item \in Items(SINGLE_SYMBOLS) : enabledSingle[item] = FALSE

\* ---------------------------------------------------------------- C24
\* C24: for every per-item statistic the accuracy of its row is
\* correct / attempts * 100 (0 when attempts is 0), the average duration is
\* totalMs / correct when correct > 0 and null exactly when correct is 0, and
\* no quotient has a zero divisor.
C24_DerivedValues ==
  \A item \in DOMAIN statsByItem :
    LET s == statsByItem[item]
        r == RankedRow(item, s)
    IN  /\ r.acc.den # 0
        /\ IF s.attempts = 0
           THEN r.acc.num = 0
           ELSE r.acc.num * s.attempts = 100 * s.correct * r.acc.den
        /\ r.avg = NoAvg <=> s.correct = 0
        /\ s.correct > 0 =>
             /\ Len(r.avg) = 1
             /\ r.avg[1].den # 0
             /\ r.avg[1].num * s.correct = s.totalMs * r.avg[1].den

\* attempts 4, correct 1 and 500 ms in all for "(": accuracy 25, average 500;
\* next to it an item never completed, its average null
C24_Witness ==
  /\ <<"(">> \in DOMAIN statsByItem
  /\ statsByItem[<<"(">>] = [attempts |-> 4, correct |-> 1, totalMs |-> 500]
  /\ Same(RankedRow(<<"(">>, statsByItem[<<"(">>]).acc, Over(25, 1))
  /\ Same(RankedRow(<<"(">>, statsByItem[<<"(">>]).avg[1], Over(500, 1))
  /\ \E item \in DOMAIN statsByItem :
       /\ statsByItem[item].correct = 0
       /\ RankedRow(item, statsByItem[item]).avg = NoAvg

\* ---------------------------------------------------------------- C25
\* the accuracy of item a is below that of item b, by the counts themselves
C25_Weaker(a, b) ==
  LET sa == statsByItem[a]
      sb == statsByItem[b]
  IN  \/ sa.correct * sb.attempts < sb.correct * sa.attempts
      \/ /\ sa.correct * sb.attempts = sb.correct * sa.attempts
         /\ sa.attempts > sb.attempts

\* C25: the ranked view holds rows of distinct items that have a statistic,
\* each with at least one attempt; its length is min(10, number of items with
\* a statistic); no row comes before a row of lower accuracy, or of equal
\* accuracy and more attempts; and no item left out has a lower accuracy, or
\* an equal accuracy and more attempts, than an item in the view.
C25_RankedView ==
  \A keys \in KeyOrders :
    LET view == ranked(keys)
        shown == {view[i].item : i \in 1 .. Len(view)}
    IN  /\ shown \subseteq DOMAIN statsByItem
        /\ Cardinality(shown) = Len(view)
        /\ \A i \in 1 .. Len(view) :
             /\ view[i] = RankedRow(view[i].item, statsByItem[view[i].item])
             /\ view[i].attempts >= 1
        /\ Len(view) = Min(10, Cardinality(DOMAIN statsByItem))
        /\ \A i, j \in 1 .. Len(view) :
             i < j => ~C25_Weaker(view[j].item, view[i].item)
        /\ \A out \in DOMAIN statsByItem \ shown :
             \A in \in shown : ~C25_Weaker(out, in)

\* twelve items have a statistic after a miss; ten are shown, the first at 0 %
\* with two attempts, ahead of a row at 0 % with one attempt, and an item at
\* 100 % is left out
C25_Witness ==
  /\ lastEvent = ControlEvent("keydown")
  /\ Cardinality(DOMAIN statsByItem) = 12
  /\ \A keys \in KeyOrders :
       LET view == ranked(keys)
       IN  /\ Len(view) = 10
           /\ view[1].correct = 0 /\ view[1].attempts = 2
           /\ \E i \in 2 .. 10 : view[i].correct = 0 /\ view[i].attempts = 1
           /\ \E out \in DOMAIN statsByItem :
                /\ \A i \in 1 .. 10 : view[i].item # out
                /\ statsByItem[out].correct = statsByItem[out].attempts

\* ---------------------------------------------------------------- C26
\* the events that are neither a key nor a full reset
C26_OtherEvents ==
  {ControlEvent(name) :
     name \in {"change:mode", "click:pause", "change:item",
               "click:disable-all", "change:settings", "tick"}}

\* every entry holds at least one attempt, and the entries hold between them
\* exactly the attempts, completions and misses counted since the last reset
C26_Entries ==
  LET keys == KeysOf(DOMAIN statsByItem)
      n == Len(keys)
  IN  /\ \A item \in DOMAIN statsByItem :
           /\ statsByItem[item].attempts >= 1
           /\ statsByItem[item].correct \in 0 .. statsByItem[item].attempts
           /\ statsByItem[item].totalMs >= 0
      /\ SumTo([i \in 1 .. n |-> statsByItem[keys[i]].attempts], n)
           = totalAttempts
      /\ SumTo([i \in 1 .. n |-> statsByItem[keys[i]].correct], n)
           = totalCorrect
      /\ totalMiss = totalAttempts - totalCorrect

C26_Step ==
  /\ lastEvent' = ControlEvent("click:reset") => statsByItem' = NoStats
  /\ lastEvent' \in C26_OtherEvents => statsByItem' = statsByItem
  /\ lastEvent' = ControlEvent("keydown") =>
       IF totalAttempts' = totalAttempts + 1
       THEN \* an attempt against the target: its entry is created or grows
            /\ target # <<>>
            /\ DOMAIN statsByItem' = DOMAIN statsByItem \cup {target}
            /\ statsByItem'[target].attempts = StatOf(target).attempts + 1
            /\ statsByItem'[target].correct =
                 StatOf(target).correct + (totalCorrect' - totalCorrect)
            /\ statsByItem'[target].totalMs >= StatOf(target).totalMs
            /\ \A i \in DOMAIN statsByItem \ {target} :
                 statsByItem'[i] = statsByItem[i]
       ELSE statsByItem' = statsByItem
  /\ lastEvent' # ControlEvent("click:reset") =>
       \A item \in DOMAIN statsByItem :
         /\ item \in DOMAIN statsByItem'
         /\ statsByItem'[item].attempts >= statsByItem[item].attempts
         /\ statsByItem'[item].correct >= statsByItem[item].correct
         /\ statsByItem'[item].totalMs >= statsByItem[item].totalMs

\* C26: the entry of an item exists exactly when an attempt (a miss or a
\* completion) has been recorded against it since the last full reset, which
\* empties the statistics; an entry is never removed and none of its fields
\* decreases before that; a mode change, a checkbox of the picker, a settings
\* edit, Pause / Resume and the passing of time leave every entry as it is.
C26_StatLifecycle == []C26_Entries /\ [][C26_Step]_vars

\* "(" was missed twice and then switched off in the picker: its entry stays
C26_Witness ==
  /\ lastEvent = ControlEvent("change:item")
  /\ enabledSingle[<<"(">>] = FALSE
  /\ <<"(">> \in DOMAIN statsByItem
  /\ statsByItem[<<"(">>] = [attempts |-> 2, correct |-> 0, totalMs |-> 0]
  /\ target # <<"(">>

\* ---------------------------------------------------------------- C28
\* the events that draw a target anew
C28_Redraws ==
  {ControlEvent(name) :
     name \in {"change:mode", "click:reset", "change:item",
               "click:disable-all", "change:settings"}}

C28_Step ==
  /\ lastEvent' \in C28_Redraws => shownAt' = now'
  /\ lastEvent' = ControlEvent("keydown") =>
       IF totalCorrect' = totalCorrect + 1
       THEN \* a completion: the time since the target was shown is recorded
            /\ lastTimeMs' = now - shownAt
            /\ statsByItem'[target].totalMs
                 = StatOf(target).totalMs + (now - shownAt)
            /\ shownAt' = now
       ELSE shownAt' = shownAt
  /\ lastEvent' \in {ControlEvent("click:pause"), ControlEvent("tick")} =>
       shownAt' = shownAt

\* C28: the duration recorded at a completion is the clock at the completion
\* minus the clock when the target was last drawn; shownAt is set to the
\* clock at startup and by every event that draws a target (a completion, a
\* mode change, a checkbox or the disable-all button of the picker, a
\* settings edit, a full reset) and
\* changed by nothing else: not by a miss, Backspace, a matching key that
\* does not complete, Pause / Resume or the passing of time.
C28_ShownAt ==
  /\ [](shownAt <= now /\ (edits = 0 => shownAt = now))
  /\ [][C28_Step]_vars

\* a target drawn at 1 by a checkbox of the picker was completed at 2: the
\* duration is 1, and the next target is shown at 2
C28_Witness ==
  /\ lastEvent = ControlEvent("keydown")
  /\ totalCorrect = 1
  /\ lastTimeMs = 1
  /\ now = 2
  /\ shownAt = 2
  /\ enabledSingle[<<"(">>] = FALSE

\* ---------------------------------------------------------------- C27
\* a key event is delivered in this step
C27_DispatchStep ==
  lastEvent' # NoEvent =>
    LET e == lastEvent'
        key == normalizeKey(e.key)
        live == /\ isRunning /\ target # <<>>
                /\ ~(e.metaKey \/ e.ctrlKey \/ e.altKey)
                /\ Len(key) = 1
        matches == StartsWith(target, Append(progress, key))
    IN  \* the listener that runs closes over the values of this state
        /\ subscribed = Closure
        \* at most one completion or one miss is counted
        /\ totalCorrect' - totalCorrect \in {0, 1}
        /\ totalMiss' - totalMiss \in {0, 1}
        /\ totalAttempts' - totalAttempts
             = (totalCorrect' - totalCorrect) + (totalMiss' - totalMiss)
        \* a key that extends the progress left by the previous key is kept,
        \* or completes the target, which is counted once
        /\ (live /\ matches) =>
             IF Append(progress, key) = target
             THEN /\ totalCorrect' = totalCorrect + 1
                  /\ statsByItem'[target].correct = StatOf(target).correct + 1
                  /\ statsByItem'[target].attempts = StatOf(target).attempts + 1
             ELSE /\ progress' = Append(progress, key)
                  /\ totalAttempts' = totalAttempts
        \* a key that does not is one miss against the target
        /\ (live /\ ~matches) =>
             /\ totalMiss' = totalMiss + 1
             /\ statsByItem'[target].attempts = StatOf(target).attempts + 1
             /\ statsByItem'[target].correct = StatOf(target).correct

\* C27: with events delivered one at a time, each handled to the end of its
\* render and effects, the listener registered whenever a key arrives closes
\* over the target and progress the previous key left (and the current mode
\* and running flag), so every keystroke is evaluated against the current
\* target and progress: a completion or a miss is counted once, and a key
\* that extends the progress is never lost.
C27_NoStaleListener ==
  /\ [](NoRenderPending => subscribed = Closure)
  /\ [][C27_DispatchStep]_vars

\* the second key of a combo has just been handled by the listener that was
\* registered after the first: the completion is counted once
C27_Witness ==
  /\ mode = "combo"
  /\ lastEvent = KeyEvent(">", NoModifier)
  /\ subscribed.target = COMBOS[1]
  /\ subscribed.progress = <<"=">>
  /\ progress = <<>>
  /\ totalAttempts = 1
  /\ totalCorrect = 1
  /\ statsByItem[COMBOS[1]].correct = 1

\* ---------------------------------------------------------------- C29
\* a key completes the target and the target drawn next is the same
C29_RepeatStep ==
  /\ PageEvent("keydown", (\E e \in KeyEvents : onKeyDown(e)) /\ UNCHANGED now)
  /\ totalCorrect' = totalCorrect + 1
  /\ target' = target

\* one key short of completing a target in single or combo mode
C29_AboutToComplete ==
  /\ mode \in SymbolModes
  /\ isRunning
  /\ target # <<>>
  /\ progress = DropLast(target)
  /\ edits < MaxEvents

\* C29: nothing prevents a repetition: in single and combo mode, whenever a
\* target is one key short of completion, the step that completes it and
\* draws the same target again is possible; with one item in the pool every
\* completion draws the same target again.
C29_Repetition ==
  /\ [](C29_AboutToComplete => ENABLED C29_RepeatStep)
  /\ [][(totalCorrect' = totalCorrect + 1 /\ Len(pool) = 1)
          => target' = target]_vars

\* every single was switched off and "(" switched on again; "(" was completed
\* and is the target again
C29_Witness ==
  /\ lastEvent = ControlEvent("keydown")
  /\ mode = "single"
  /\ pool = << <<"(">> >>
  /\ totalCorrect = 1
  /\ statsByItem[<<"(">>].correct = 1
  /\ target = <<"(">>
  /\ typed = <<>>

\* ------------------------------------------------ clampInt on its own
\* the limits and numbers clampInt is called with
MaxClamp == 3

ClampLimits == -MaxClamp .. MaxClamp

ClampNumbers ==
  {NaN, PosInf, NegInf} \cup
  {Half(h) : h \in -(2 * MaxClamp + 3) .. (2 * MaxClamp + 3)}

\* a call clampInt(n, min, max) that has not returned yet
ClampCall(n, min, max) ==
  [fn |-> "clampInt", args |-> [n |-> n, min |-> min, max |-> max],
   result |-> <<>>]

InitClamp ==
  /\ InitSession
  /\ \E n \in ClampNumbers, min \in ClampLimits, max \in ClampLimits :
       call = ClampCall(n, min, max)

\* the call returns
ClampReturn ==
  /\ call.fn = "clampInt"
  /\ call.result = <<>>
  /\ call' = [call EXCEPT
               !.result = <<clampInt(call.args.n, call.args.min,
                                     call.args.max)>>]
  /\ UNCHANGED <<session, now, edits, lastEvent, subscribed>>

NextClamp == ClampReturn

SpecClamp == InitClamp /\ [][NextClamp]_vars

\* C30: with integer limits, clampInt(n, min, max) returns min when n is NaN,
\* +Infinity or -Infinity; for a finite n and min <= max it returns the
\* integer part of n (the integer nearest to n between zero and n), moved to
\* min when below it and to max when above it; and whenever min <= max the
\* result is an integer of min .. max.
C30_ClampInt ==
  call.fn = "clampInt" /\ call.result # <<>> =>
    LET n == call.args.n
        min == call.args.min
        max == call.args.max
        r == call.result[1]
        whole == CHOOSE t \in -(MaxClamp + 2) .. (MaxClamp + 2) :
                   IF n.halves >= 0
                   THEN 2 * t <= n.halves /\ n.halves < 2 * t + 2
                   ELSE 2 * t >= n.halves /\ n.halves > 2 * t - 2
    IN  /\ n \in {NaN, PosInf, NegInf} => r = min
        /\ n \notin {NaN, PosInf, NegInf} /\ min <= max =>
             r = IF whole < min THEN min
                 ELSE IF whole > max THEN max ELSE whole
        /\ min <= max => r \in min .. max

\* +Infinity has been clamped to the lower limit of a proper range
C30_Witness ==
  /\ call.fn = "clampInt"
  /\ call.args.n = PosInf
  /\ call.args.min = -1
  /\ call.args.max = 2
  /\ call.result = <<-1>>

\* C31: totalAttempts = totalCorrect + totalMiss in every reachable state. A
\* keydown event that raises totalAttempts raises it by 1 and raises exactly
\* one of totalCorrect and totalMiss by 1; a keydown event that does not
\* raise it leaves all three alone; the Reset button zeroes all three; no
\* other event of the page changes any of them.
C31_Step ==
  LET dA == totalAttempts' - totalAttempts
      dC == totalCorrect' - totalCorrect
      dM == totalMiss' - totalMiss
  IN  /\ lastEvent'.key = "keydown" =>
            \/ dA = 0 /\ dC = 0 /\ dM = 0
            \/ dA = 1 /\ dC = 1 /\ dM = 0
            \/ dA = 1 /\ dC = 0 /\ dM = 1
      /\ lastEvent'.key = "click:reset" =>
            totalAttempts' = 0 /\ totalCorrect' = 0 /\ totalMiss' = 0
      /\ lastEvent'.key \notin {"keydown", "click:reset"} =>
            dA = 0 /\ dC = 0 /\ dM = 0

C31_Counters ==
  /\ [](totalAttempts = totalCorrect + totalMiss)
  /\ [][C31_Step]_vars

\* a completion and a miss have both been counted, the miss in digits mode
C31_Witness ==
  /\ mode = "digits"
  /\ totalCorrect = 1
  /\ totalMiss = 1
  /\ totalAttempts = 2

\* C32: the per-item statistics agree with the cumulative counters in every
\* reachable state: the attempts of all entries add up to totalAttempts, the
\* correct counts of all entries add up to totalCorrect, and every entry has
\* 1 <= attempts and 0 <= correct <= attempts.
C32_StatsAgree ==
  LET keys == KeysOf(DOMAIN statsByItem)
      n == Len(keys)
  IN  /\ SumTo([i \in 1 .. n |-> statsByItem[keys[i]].attempts], n)
            = totalAttempts
      /\ SumTo([i \in 1 .. n |-> statsByItem[keys[i]].correct], n)
            = totalCorrect
      /\ \A item \in DOMAIN statsByItem :
            /\ 1 <= statsByItem[item].attempts
            /\ 0 <= statsByItem[item].correct
            /\ statsByItem[item].correct <= statsByItem[item].attempts

\* two items have entries, one completed and one missed, after three attempts
C32_Witness ==
  /\ Cardinality(DOMAIN statsByItem) = 2
  /\ totalAttempts = 3
  /\ totalCorrect >= 1
  /\ \E item \in DOMAIN statsByItem : statsByItem[item].correct = 0

\* an optional sign, digits, and optionally a point followed by digits
C33_IsLiteral(lit) ==
  /\ IsDigits(IntPart(lit))
  /\ HasPoint(lit) => IsDigits(FracPart(lit))

\* C33: after any sequence of events of the page (the settings form edited
\* in digits mode only): in single and combo mode the target is the empty
\* marker exactly when the effective pool is empty, and otherwise an item of
\* the effective pool - enabled, of the current catalog and not of the
\* other one, not a numeric literal; in digits mode the target is a
\* non-empty numeric literal.
C33_TargetValid ==
  /\ mode \in SymbolModes =>
        /\ target = <<>> <=> Len(pool) = 0
        /\ target # <<>> =>
              /\ target \in Items(pool)
              /\ target \in Items(BasePool(mode))
              /\ EnabledMap(mode)[target] # FALSE
              /\ target \notin Items(BasePool(CHOOSE m \in SymbolModes : m # mode))
              /\ ~C33_IsLiteral(target)
  /\ mode = "digits" => target # <<>> /\ C33_IsLiteral(target)

\* combo mode after its first checkbox was cleared: a target of the rest
C33_Witness ==
  /\ mode = "combo"
  /\ lastEvent = ControlEvent("change:item")
  /\ enabledCombo[COMBOS[1]] = FALSE
  /\ target # <<>>
  /\ target # COMBOS[1]

\* the literal lit is one the settings s allow
C34_Conforms(lit, s) ==
  /\ IsDigits(IntPart(lit))
  /\ s.minIntDigits <= Len(IntPart(lit))
  /\ Len(IntPart(lit)) <= s.maxIntDigits
  /\ lit[1] \in SignChars => s.enableSign
  /\ HasPoint(lit) =>
        /\ s.enableDecimal
        /\ IsDigits(FracPart(lit))
        /\ s.minFracDigits <= Len(FracPart(lit))
        /\ Len(FracPart(lit)) <= s.maxFracDigits

\* C34: in digits mode the target conforms to the settings now stored: its
\* integer part has between minIntDigits and maxIntDigits digits, it has a
\* sign only if enableSign is set, and a decimal point only if enableDecimal
\* is set, then with between minFracDigits and maxFracDigits digits after
\* it; and every change of a field or checkbox of the settings form leaves a
\* newly shown target that conforms to the settings the change stores, with
\* empty buffers.
C34_EditStep ==
  lastEvent'.key \in {"change:minInt", "change:maxInt", "change:minFrac",
                      "change:maxFrac", "change:sign", "change:decimal"} =>
    /\ C34_Conforms(target', digitsSettings')
    /\ typed' = <<>>
    /\ progress' = <<>>
    /\ shownAt' = now

C34_TargetConforms ==
  /\ [](mode = "digits" => C34_Conforms(target, digitsSettings))
  /\ [][C34_EditStep]_vars

\* both integer bounds were brought to 2 (from 3 and 7): a two-digit target
C34_Witness ==
  /\ mode = "digits"
  /\ lastEvent.key = "change:maxInt"
  /\ digitsSettings.minIntDigits = 2
  /\ digitsSettings.maxIntDigits = 2
  /\ Len(IntPart(target)) = 2

\* the key event of the character of the target that follows progress
C35_NextKey == KeyEvent(target[Len(progress) + 1], NoModifier)

\* C35: in every state with a target, progress is a proper prefix of the
\* target (in digits mode too, whatever was mistyped before); and in a
\* running state, typing the character of the target that follows progress
\* leaves totalMiss and totalBackspace alone and either is the last
\* character and counts exactly one completion, or extends progress by that
\* character with the target and totalCorrect unchanged. So typing the
\* rest of the target in order completes it once, without a miss and
\* without Backspace.
C35_Prefix ==
  target # <<>> =>
    /\ Len(progress) < Len(target)
    /\ \A i \in 1 .. Len(progress) : progress[i] = target[i]

C35_Step ==
  (/\ isRunning
   /\ target # <<>>
   /\ onKeyDown(C35_NextKey))
  => /\ totalMiss' = totalMiss
     /\ totalBackspace' = totalBackspace
     /\ IF Len(progress) + 1 = Len(target)
        THEN /\ totalCorrect' = totalCorrect + 1
             /\ totalAttempts' = totalAttempts + 1
        ELSE /\ totalCorrect' = totalCorrect
             /\ totalAttempts' = totalAttempts
             /\ target' = target
             /\ progress' = Append(progress, target[Len(progress) + 1])

C35_Completable ==
  /\ []C35_Prefix
  /\ [][C35_Step]_vars

\* a numeric target was missed once and then completed, without Backspace
C35_Witness ==
  /\ mode = "digits"
  /\ totalBackspace = 0
  /\ totalMiss = 1
  /\ totalCorrect = 1
  /\ \E item \in DOMAIN statsByItem :
        statsByItem[item].attempts = 2 /\ statsByItem[item].correct = 1

\* C36: in single and combo mode a one-character key that does not continue
\* the match (running, a target, no modifier) leaves progress empty - also
\* when the key is the first character of the target, which is not taken
\* as the start of a new match - and counts one miss and no completion, the
\* target staying; so with target "=>" the keys '=', '=' leave progress
\* empty and a following '>' is a miss again.
C36_MismatchStep(k) ==
  (/\ mode \in SymbolModes
   /\ isRunning
   /\ target # <<>>
   /\ ~StartsWith(target, Append(progress, k))
   /\ onKeyDown(KeyEvent(k, NoModifier)))
  => /\ progress' = <<>>
     /\ totalMiss' = totalMiss + 1
     /\ totalCorrect' = totalCorrect
     /\ target' = target

C36_KeyDiscarded == [][\A k \in PlainKeys : C36_MismatchStep(k)]_vars

\* target "=>" after the keys '=', '=', '>': two misses, nothing matched
C36_Witness ==
  /\ mode = "combo"
  /\ target = <<"=", ">">>
  /\ typed = <<"=", "=", ">">>
  /\ progress = <<>>
  /\ totalMiss = 2
  /\ totalCorrect = 0

\* C37: a click on Pause / Resume flips isRunning and changes nothing else:
\* mode, target, typed, progress, the shown-at timestamp, the counters, the
\* last duration, the statistics, the enabled flags and the numeric settings
\* stay. The clock advancing (paused or not) leaves the shown-at timestamp,
\* and a completion takes its duration from it (now - shownAt), so the time
\* spent paused is part of the duration.
C37_Step ==
  /\ lastEvent'.key = "click:pause" =>
        /\ isRunning' = ~isRunning
        /\ UNCHANGED <<mode, target, typed, progress, shownAt, totalAttempts,
                       totalCorrect, totalMiss, totalBackspace, lastTimeMs,
                       statsByItem, enabledSingle, enabledCombo,
                       digitsSettings>>
  /\ lastEvent'.key = "tick" => shownAt' = shownAt
  /\ lastEvent'.key = "keydown" /\ totalCorrect' = totalCorrect + 1 =>
        lastTimeMs' = now - shownAt

C37_PauseResume == [][C37_Step]_vars

\* a partly matched combo, paused, after the clock advanced during the pause
C37_Witness ==
  /\ mode = "combo"
  /\ progress # <<>>
  /\ ~isRunning
  /\ lastEvent = ControlEvent("tick")
  /\ now = 1
  /\ shownAt = 0

\* C38: every pool edit (a change of a checkbox, enable-all, disable-all:
\* the steps that count in edits here) leaves the counters, the statistics,
\* the last duration, the mode, the running flag and the numeric settings
\* alone; in single and combo mode it empties typed and progress and leaves
\* a newly shown target of the pool as the edit leaves it (the empty marker
\* when that pool is empty), whatever was matched before and whether or not
\* the previous target is still enabled; in digits mode it changes nothing.
C38_Step ==
  edits' # edits =>
    /\ UNCHANGED <<totalAttempts, totalCorrect, totalMiss, totalBackspace,
                   statsByItem, lastTimeMs, mode, isRunning, digitsSettings>>
    /\ IF mode = "digits"
       THEN UNCHANGED <<target, typed, progress, shownAt, enabledSingle,
                        enabledCombo>>
       ELSE /\ typed' = <<>>
            /\ progress' = <<>>
            /\ shownAt' = now
            /\ IF Len(pool') = 0 THEN target' = <<>>
               ELSE target' \in Items(pool')

C38_PoolEdit == [][C38_Step]_vars

\* the first combo was disabled after a miss: the miss is still counted, the
\* buffers are empty and the target is one of the other combos
C38_Witness ==
  /\ mode = "combo"
  /\ edits = 1
  /\ enabledCombo[COMBOS[1]] = FALSE
  /\ totalMiss = 1
  /\ typed = <<>>
  /\ progress = <<>>
  /\ target \in Items(pool)

\* C39: a click on Reset leaves the mode, the running flag, both maps of
\* enabled flags (so the effective pool) and the numeric settings as they
\* were, and with an empty effective pool in single or combo mode it leaves
\* the empty marker as the target.
C39_Step ==
  lastEvent'.key = "click:reset" =>
    /\ UNCHANGED <<mode, isRunning, enabledSingle, enabledCombo,
                   digitsSettings>>
    /\ pool' = pool
    /\ mode \in SymbolModes /\ Len(pool) = 0 => target' = <<>>

C39_ResetConfined == [][C39_Step]_vars

\* Reset was clicked while paused with every single symbol disabled
C39_Witness ==
  /\ lastEvent = ControlEvent("click:reset")
  /\ mode = "single"
  /\ ~isRunning
  /\ Len(pool) = 0
  /\ target = <<>>

\* the digit count a number field takes an entered value (zero or more) for:
\* its whole part, at least 1 and at most 50
C40_Count(entered) ==
  LET whole == entered.halves \div 2
  IN  IF whole < 1 THEN 1 ELSE IF whole > 50 THEN 50 ELSE whole

\* C40: a change of a field of the settings form changes that setting
\* alone. A minimum field stores the entered count, or the current maximum
\* when the entered count is above it, and the maximum stays; a maximum
\* field stores the entered count, or the current minimum when the entered
\* count is below it, and the minimum stays; the other pair of bounds and
\* both flags stay. A checkbox flips its flag and all four bounds and the
\* other flag stay.
C40_Step ==
  LET s == digitsSettings
      t == digitsSettings'
      e == lastEvent'
      v == C40_Count(e.value)
  IN  /\ e.key = "change:minInt" =>
            t = [s EXCEPT !.minIntDigits =
                            IF v > s.maxIntDigits THEN s.maxIntDigits ELSE v]
      /\ e.key = "change:maxInt" =>
            t = [s EXCEPT !.maxIntDigits =
                            IF v < s.minIntDigits THEN s.minIntDigits ELSE v]
      /\ e.key = "change:minFrac" =>
            t = [s EXCEPT !.minFracDigits =
                            IF v > s.maxFracDigits THEN s.maxFracDigits ELSE v]
      /\ e.key = "change:maxFrac" =>
            t = [s EXCEPT !.maxFracDigits =
                            IF v < s.minFracDigits THEN s.minFracDigits ELSE v]
      /\ e.key = "change:sign" => t = [s EXCEPT !.enableSign = ~s.enableSign]
      /\ e.key = "change:decimal" =>
            t = [s EXCEPT !.enableDecimal = ~s.enableDecimal]

C40_OnlyEditedBound == [][C40_Step]_vars

\* 60 was entered as the integer minimum while the maximum was 7: both are 7
C40_Witness ==
  /\ lastEvent = FormEvent("change:minInt", Num(60))
  /\ digitsSettings.minIntDigits = 7
  /\ digitsSettings.maxIntDigits = 7

====
